---- MODULE Spec2Model ----
(***************************************************************************)
(* State-machine model of the fithub REST backend: the goals, measurements *)
(* and nutrition view sets (src/goals/api.py, src/nutrition/api.py).       *)
(* The persisted store is the only state; every request is an action.      *)
(***************************************************************************)
EXTENDS Integers, Sequences, FiniteSets, TLC

(***************************************************************************)
(* Bounds of the model.                                                    *)
(***************************************************************************)
MaxGoals == 3
MaxDiets == 3
MaxRecords == 3
MaxPerEntity == 1
MaxDay == 1
NumProcs == 2
MaxMeas == 2
MaxProgressGoals == 2
MaxMeals == 1
MaxMealIngredients == 2
MaxMealRecords == 2
MaxBatch == 3
MaxBulkRows == 4
DateSpan == 1

(***************************************************************************)
(* Value domains.                                                          *)
(***************************************************************************)
Users == {"alice", "bob"}
Entities == {"goal", "measurement", "diet", "meal", "mealingredient",
             "mealrecord", "mealpreference"}
UserScoped == {"goal", "measurement", "diet", "mealrecord", "mealpreference"}
GoalTypes == {"weight_loss", "muscle_gain"}
ProgressMetrics == {"weight_kg", "body_fat_percentage", "muscle_mass_percentage"}
Metrics == {"weight_kg", "waist_cm"}
Dates == 0..MaxDay
MeasurementTypes == {"target", "baseline", "log"}
NoMeal == 0

VARIABLES db, seq, today, resp, procs

vars == <<db, seq, today, resp, procs>>

(***************************************************************************)
(* Helpers on tables (a table is a function from primary keys to rows).    *)
(***************************************************************************)
Restrict(f, S) == [x \in S |-> f[x]]

EmptyTable == [x \in {} |-> 0]

(***************************************************************************)
(* Owner of a row.  Goal, BodyMeasurement, Diet, MealRecord and            *)
(* MealPreference carry a user; a Meal is owned through its diet and a     *)
(* MealIngredient through its meal's diet.                                 *)
(***************************************************************************)
Owner(d, e, id) ==
  CASE e = "meal" -> d.diet[d.meal[id].diet].user
    [] e = "mealingredient" -> d.diet[d.meal[d.mealingredient[id].meal].diet].user
    [] OTHER -> d[e][id].user

\* mutant: the queryset is not restricted to the requesting user
GetQueryset_All(d, e, u) == DOMAIN d[e]

\* get_queryset of every view set: the rows of the requesting user
GetQueryset(d, e, u) == {id \in DOMAIN d[e] : Owner(d, e, id) = u}

\* get_object: a row of the view set's queryset, or the 404 result
ObjectFound(d, e, u, pk) == pk \in GetQueryset(d, e, u)

\* Model.save(): UPDATE of the whole row by primary key, INSERT when absent
Save(d, e, pk, row) ==
  [d EXCEPT ![e] = (pk :> row) @@ @]

\* mutant: the UPDATE that clears the flags is left out
ClearActive_Skip(d, e, u) == d

\* QuerySet.filter(user=u, is_active=True).update(is_active=False)
ClearActive(d, e, u) ==
  [d EXCEPT ![e] = [id \in DOMAIN @ |->
      IF @[id].user = u /\ @[id].is_active
      THEN [@[id] EXCEPT !.is_active = FALSE]
      ELSE @[id]]]

\* Model.delete(): the row and the rows that reference it
DeleteRow(d, e, pk) ==
  LET diets == IF e = "diet" THEN {pk} ELSE {}
      meals == (IF e = "meal" THEN {pk} ELSE {})
               \cup {m \in DOMAIN d.meal : d.meal[m].diet \in diets}
      mis == (IF e = "mealingredient" THEN {pk} ELSE {})
             \cup {x \in DOMAIN d.mealingredient : d.mealingredient[x].meal \in meals}
      own == IF e \in {"diet", "meal", "mealingredient"} THEN {} ELSE {pk}
  IN [d EXCEPT
        ![e] = Restrict(@, DOMAIN @ \ own),
        !.diet = Restrict(@, DOMAIN @ \ diets),
        !.meal = Restrict(@, DOMAIN @ \ meals),
        !.mealingredient = Restrict(@, DOMAIN @ \ mis),
        !.mealrecord = [r \in DOMAIN @ |->
            IF @[r].meal \in meals THEN [@[r] EXCEPT !.meal = NoMeal] ELSE @[r]]]

(***************************************************************************)
(* Serializers: a request payload carries every field a client may send,   *)
(* the owner included.  The serializer keeps the writable fields only.     *)
(***************************************************************************)
Ingredients == {1, 2}

\* the choices of BodyMeasurement.metric
MetricChoices ==
  {"weight_kg", "waist_cm", "hip_cm", "neck_cm", "arm_circumference_cm",
   "thigh_circumference_cm", "calf_circumference_cm", "body_fat_percentage",
   "muscle_mass_percentage", "bmi_value"}

\* BodyMeasurementSerializer.is_valid(): the choice fields hold a choice
MeasurementValid(p) ==
  p.metric \in MetricChoices /\ p.measurement_type \in MeasurementTypes

\* is_valid(): the related rows a payload names must exist
IsValid(d, e, p) ==
  CASE e = "measurement" -> MeasurementValid(p)
    [] e = "meal" -> p.diet \in DOMAIN d.diet
    [] e = "mealingredient" -> p.meal \in DOMAIN d.meal /\ p.ingredient \in Ingredients
    [] e = "mealrecord" -> p.meal = NoMeal \/ p.meal \in DOMAIN d.meal
    [] e = "mealpreference" -> p.ingredient \in Ingredients
    [] OTHER -> TRUE

\* validated_data of the nutrition serializers: every model field but the
\* owner and the id
NutritionValidatedData(e, p) ==
  CASE e = "diet" -> [name |-> p.name, is_active |-> p.is_active]
    [] e = "meal" -> [diet |-> p.diet, name |-> p.name]
    [] e = "mealingredient" -> [meal |-> p.meal, ingredient |-> p.ingredient,
                                quantity |-> p.quantity]
    [] e = "mealrecord" -> [meal |-> p.meal, calories |-> p.calories,
                            proteins |-> p.proteins, fats |-> p.fats,
                            carbs |-> p.carbs, timestamp |-> p.timestamp]
    [] OTHER -> [ingredient |-> p.ingredient, preference_type |-> p.preference_type]

\* validated_data: the payload without its read-only fields (id, user,
\* created_at, updated_at)
ValidatedData(e, p) ==
  CASE e = "goal" -> [goal_type |-> p.goal_type, target_date |-> p.target_date,
                      notes |-> p.notes, is_active |-> p.is_active]
    [] e = "measurement" -> [metric |-> p.metric, measurement_type |-> p.measurement_type,
                             value |-> p.value, timestamp |-> p.timestamp]
    [] OTHER -> NutritionValidatedData(e, p)

\* mutant: the owner the payload carries is stored
PerformCreate_PayloadUser(e, u, p) ==
  IF e \in UserScoped
  THEN [user |-> p.user] @@ ValidatedData(e, p)
  ELSE ValidatedData(e, p)

\* perform_create: serializer.save(user=request.user) where the view set
\* overrides it; MealViewSet and MealIngredientViewSet save the data as sent
PerformCreate(e, u, p) ==
  IF e \in UserScoped
  THEN [user |-> u] @@ ValidatedData(e, p)
  ELSE ValidatedData(e, p)

\* perform_update: serializer.save() on the loaded instance
PerformUpdate(e, old, p) ==
  IF e \in UserScoped
  THEN [user |-> old.user] @@ ValidatedData(e, p)
  ELSE ValidatedData(e, p)

(***************************************************************************)
(* The response of the last request.                                       *)
(***************************************************************************)
Response(u, op, e, pk, status, data, puser) ==
  [user |-> u, op |-> op, entity |-> e, pk |-> pk, status |-> status,
   data |-> data, puser |-> puser, body |-> <<>>]

\* a response whose body is a sequence (ordered rows, or computed numbers)
BodyResponse(u, op, e, pk, status, body) ==
  [user |-> u, op |-> op, entity |-> e, pk |-> pk, status |-> status,
   data |-> {}, puser |-> u, body |-> body]

NoResponse == Response("nobody", "none", "none", 0, 0, {}, "nobody")

NoObj == [user |-> "nobody"]

Procs == 1..NumProcs

IdleProc == [pc |-> "idle", user |-> "nobody", pk |-> 0, obj |-> NoObj]

Init ==
  /\ db = [e \in Entities |-> EmptyTable]
  /\ seq = [e \in Entities |-> 0]
  /\ today = 0
  /\ resp = NoResponse
  /\ procs = [p \in Procs |-> IdleProc]

(***************************************************************************)
(* Generic ModelViewSet requests.                                          *)
(***************************************************************************)
\* POST <entity>/
Create(u, e, p) ==
  /\ IF IsValid(db, e, p)
     THEN /\ db' = Save(db, e, seq[e] + 1, PerformCreate(e, u, p))
          /\ seq' = [seq EXCEPT ![e] = @ + 1]
          /\ resp' = Response(u, "create", e, seq[e] + 1, 201, {seq[e] + 1}, p.user)
     ELSE /\ resp' = Response(u, "create", e, 0, 400, {}, p.user)
          /\ UNCHANGED <<db, seq>>
  /\ UNCHANGED <<today, procs>>

\* GET <entity>/<pk>/
Retrieve(u, e, pk) ==
  /\ resp' = IF ObjectFound(db, e, u, pk)
             THEN Response(u, "retrieve", e, pk, 200, {pk}, u)
             ELSE Response(u, "retrieve", e, pk, 404, {}, u)
  /\ UNCHANGED <<db, seq, today, procs>>

\* PUT/PATCH <entity>/<pk>/
Update(u, e, pk, p) ==
  /\ IF ~ObjectFound(db, e, u, pk)
     THEN /\ resp' = Response(u, "update", e, pk, 404, {}, p.user)
          /\ UNCHANGED db
     ELSE IF ~IsValid(db, e, p)
     THEN /\ resp' = Response(u, "update", e, pk, 400, {}, p.user)
          /\ UNCHANGED db
     ELSE /\ db' = Save(db, e, pk, PerformUpdate(e, db[e][pk], p))
          /\ resp' = Response(u, "update", e, pk, 200, {pk}, p.user)
  /\ UNCHANGED <<seq, today, procs>>

\* DELETE <entity>/<pk>/
Destroy(u, e, pk) ==
  /\ IF ObjectFound(db, e, u, pk)
     THEN /\ db' = DeleteRow(db, e, pk)
          /\ resp' = Response(u, "destroy", e, pk, 204, {}, u)
     ELSE /\ resp' = Response(u, "destroy", e, pk, 404, {}, u)
          /\ UNCHANGED db
  /\ UNCHANGED <<seq, today, procs>>

\* GET <entity>/
List(u, e) ==
  /\ resp' = Response(u, "list", e, 0, 200, GetQueryset(db, e, u), u)
  /\ UNCHANGED <<db, seq, today, procs>>

(***************************************************************************)
(* GoalViewSet / DietViewSet: activate, deactivate, active.                *)
(***************************************************************************)
\* the three statements of activate
\* mutant: the flag of the target is not set
ActivateSet_Unset(obj) == obj

ActivateSet(obj) == [obj EXCEPT !.is_active = TRUE]

ActivateRun(d, e, u, pk) ==
  Save(ClearActive(d, e, u), e, pk, ActivateSet(d[e][pk]))

\* POST goals/<pk>/activate/, POST diets/<pk>/activate/ handled as one request
Activate(u, e, pk) ==
  /\ IF ObjectFound(db, e, u, pk)
     THEN /\ db' = ActivateRun(db, e, u, pk)
          /\ resp' = Response(u, "activate", e, pk, 200, {}, u)
     ELSE /\ resp' = Response(u, "activate", e, pk, 404, {}, u)
          /\ UNCHANGED db
  /\ UNCHANGED <<seq, today, procs>>

\* mutant: deactivate clears the flag of every goal of the owner
DeactivateRun_ClearAll(d, u, pk) == ClearActive(d, "goal", u)

\* goal.is_active = False; goal.save()
DeactivateRun(d, u, pk) ==
  Save(d, "goal", pk, [d.goal[pk] EXCEPT !.is_active = FALSE])

\* POST goals/<pk>/deactivate/
Deactivate(u, pk) ==
  /\ IF ObjectFound(db, "goal", u, pk)
     THEN /\ db' = DeactivateRun(db, u, pk)
          /\ resp' = Response(u, "deactivate", "goal", pk, 200, {}, u)
     ELSE /\ resp' = Response(u, "deactivate", "goal", pk, 404, {}, u)
          /\ UNCHANGED db
  /\ UNCHANGED <<seq, today, procs>>

\* the rows of u with the active flag set
ActiveRows(d, e, u) == {id \in DOMAIN d[e] : d[e][id].user = u /\ d[e][id].is_active}

\* GET goals/active/: all active goals of the user
GoalActive(u) ==
  /\ resp' = Response(u, "active", "goal", 0, 200, ActiveRows(db, "goal", u), u)
  /\ UNCHANGED <<db, seq, today, procs>>

\* mutant: no active diet is answered with a default diet instead of 404
DietActiveStatus_Default(d, u) ==
  IF Cardinality(ActiveRows(d, "diet", u)) <= 1 THEN 200 ELSE 500

\* Diet.objects.get(user=u, is_active=True): the row, DoesNotExist (404),
\* or MultipleObjectsReturned, which the view does not catch (500)
DietActiveStatus(d, u) ==
  IF ActiveRows(d, "diet", u) = {} THEN 404
  ELSE IF Cardinality(ActiveRows(d, "diet", u)) = 1 THEN 200
  ELSE 500

\* GET diets/active/
DietActive(u) ==
  /\ resp' = Response(u, "active", "diet", 0, DietActiveStatus(db, u),
                      IF DietActiveStatus(db, u) = 200
                      THEN ActiveRows(db, "diet", u) ELSE {}, u)
  /\ UNCHANGED <<db, seq, today, procs>>

(***************************************************************************)
(* Payloads of the goal and diet requests.                                 *)
(***************************************************************************)
GoalPayloads ==
  [user : {"bob"}, goal_type : {"weight_loss"}, target_date : {0},
   notes : {"a", "b"}, is_active : BOOLEAN]

DietPayloads == [user : Users, name : {"a", "b"}, is_active : BOOLEAN]

(***************************************************************************)
(* The goal API, every request handled to completion before the next.      *)
(***************************************************************************)
GoalIds == 1..(seq["goal"] + 1)

Next ==
  \E u \in Users :
    \/ \E p \in GoalPayloads : seq["goal"] < MaxGoals /\ Create(u, "goal", p)
    \/ \E pk \in GoalIds, p \in GoalPayloads : Update(u, "goal", pk, p)
    \/ \E pk \in GoalIds : Retrieve(u, "goal", pk)
    \/ \E pk \in GoalIds : Destroy(u, "goal", pk)
    \/ \E pk \in GoalIds : Activate(u, "goal", pk)
    \/ \E pk \in GoalIds : Deactivate(u, pk)
    \/ GoalActive(u)
    \/ List(u, "goal")

Spec == Init /\ [][Next]_vars

AtMostOneActive(d, e) == \A u \in Users : Cardinality(ActiveRows(d, e, u)) <= 1

\* a create or update that stored is_active = TRUE
StoredActiveFlag(d, r, e) ==
  /\ r.op \in {"create", "update"}
  /\ r.entity = e
  /\ r.status \in {200, 201}
  /\ d[e][r.pk].is_active

\* C1 (as stated): in every reachable state of the goal API at most one goal
\* of each owner is active.
C1_AtMostOneActiveGoal == AtMostOneActive(db, "goal")

\* C1 (amended): every goal request other than a create or update that stores
\* is_active = TRUE keeps "at most one active goal per owner"; only such a
\* create or update can add a second active goal.
C1_OnlyFlagWritesAddActive ==
  [][(AtMostOneActive(db, "goal") /\ ~StoredActiveFlag(db', resp', "goal"))
       => AtMostOneActive(db', "goal")]_vars

\* an activate has run for an owner who has another goal, and the owner has
\* exactly one active goal
C1_Witness ==
  /\ resp.op = "activate" /\ resp.entity = "goal" /\ resp.status = 200
  /\ Cardinality(GetQueryset(db, "goal", resp.user)) >= 2
  /\ AtMostOneActive(db, "goal")

\* C2: when activate(G) by owner O has completed with nothing interleaved, G
\* is the one and only active goal of O.
C2_ActivateLeavesOnlyTarget ==
  (resp.op = "activate" /\ resp.entity = "goal" /\ resp.status = 200)
    => ActiveRows(db, "goal", resp.user) = {resp.pk}

\* activate(G) has completed for an owner with three goals
C2_Witness ==
  /\ resp.op = "activate" /\ resp.entity = "goal" /\ resp.status = 200
  /\ Cardinality(GetQueryset(db, "goal", resp.user)) >= 3
  /\ ActiveRows(db, "goal", resp.user) = {resp.pk}

(***************************************************************************)
(* Concurrent activations: every ORM statement of activate is a step of    *)
(* its own (no transaction wraps the view), and the statements of two      *)
(* requests interleave.                                                    *)
(***************************************************************************)
\* goal = self.get_object()
ActivateLoad(p, u, pk) ==
  /\ procs[p].pc = "idle"
  /\ IF ObjectFound(db, "goal", u, pk)
     THEN /\ procs' = [procs EXCEPT ![p] =
                 [pc |-> "loaded", user |-> u, pk |-> pk, obj |-> db.goal[pk]]]
          /\ UNCHANGED resp
     ELSE /\ resp' = Response(u, "activate", "goal", pk, 404, {}, u)
          /\ UNCHANGED procs
  /\ UNCHANGED <<db, seq, today>>

\* Goal.objects.filter(user=request.user, is_active=True).update(is_active=False)
ActivateClear(p) ==
  /\ procs[p].pc = "loaded"
  /\ db' = ClearActive(db, "goal", procs[p].user)
  /\ procs' = [procs EXCEPT ![p].pc = "cleared"]
  /\ UNCHANGED <<seq, today, resp>>

\* goal.is_active = True; goal.save(); return Response(...)
ActivateSave(p) ==
  /\ procs[p].pc = "cleared"
  /\ db' = Save(db, "goal", procs[p].pk, ActivateSet(procs[p].obj))
  /\ procs' = [procs EXCEPT ![p].pc = "done"]
  /\ resp' = Response(procs[p].user, "activate", "goal", procs[p].pk, 200, {}, procs[p].user)
  /\ UNCHANGED <<seq, today>>

InactiveGoalPayloads == {p \in GoalPayloads : ~p.is_active /\ p.notes = "a"}

NextConc ==
  \/ \E u \in Users, p \in InactiveGoalPayloads :
        seq["goal"] < MaxGoals /\ Create(u, "goal", p)
  \/ \E p \in Procs, u \in Users, pk \in GoalIds : ActivateLoad(p, u, pk)
  \/ \E p \in Procs : ActivateClear(p)
  \/ \E p \in Procs : ActivateSave(p)
  \/ \E u \in Users : GoalActive(u)

SpecConc == Init /\ [][NextConc]_vars

\* C3: once two interleaved activate requests on different goals of one owner
\* have both completed, exactly one goal of that owner is active.
C3_ConcurrentActivateOneActive ==
  \A p, q \in Procs :
    (/\ p # q
     /\ procs[p].pc = "done" /\ procs[q].pc = "done"
     /\ procs[p].user = procs[q].user
     /\ procs[p].pk # procs[q].pk)
    => Cardinality(ActiveRows(db, "goal", procs[p].user)) = 1

\* C4: nothing runs between the clearing of the owner's flags and the setting
\* of the target's flag: the step after the clear of a request is its save.
C4_ClearThenSetAtomic ==
  [][\A p \in Procs : procs[p].pc = "cleared" => procs'[p].pc = "done"]_vars

(***************************************************************************)
(* The diet API, every request handled to completion before the next.      *)
(***************************************************************************)
DietIds == 1..(seq["diet"] + 1)

NextDiet ==
  \E u \in Users :
    \/ \E p \in DietPayloads : seq["diet"] < MaxDiets /\ Create(u, "diet", p)
    \/ \E pk \in DietIds, p \in DietPayloads : Update(u, "diet", pk, p)
    \/ \E pk \in DietIds : Retrieve(u, "diet", pk)
    \/ \E pk \in DietIds : Destroy(u, "diet", pk)
    \/ \E pk \in DietIds : Activate(u, "diet", pk)
    \/ DietActive(u)
    \/ List(u, "diet")

SpecDiet == Init /\ [][NextDiet]_vars

\* C5: in every reachable state of the diet API at most one diet of each
\* owner is active, and after activate(D) D is the only active diet.
C5_AtMostOneActiveDiet ==
  /\ AtMostOneActive(db, "diet")
  /\ (resp.op = "activate" /\ resp.entity = "diet" /\ resp.status = 200)
       => ActiveRows(db, "diet", resp.user) = {resp.pk}

\* C6: diets/active/ answers 404 with no diet object when the owner has no
\* active diet, and answers with that diet when the owner has exactly one.
C6_ActiveDietOr404 ==
  (resp.op = "active" /\ resp.entity = "diet") =>
    /\ ActiveRows(db, "diet", resp.user) = {}
         => (resp.status = 404 /\ resp.data = {})
    /\ Cardinality(ActiveRows(db, "diet", resp.user)) = 1
         => (resp.status = 200 /\ resp.data = ActiveRows(db, "diet", resp.user))

\* an owner who has a diet, none of them active, asked for the active diet
\* while another user has an active one
C6_Witness ==
  /\ resp.op = "active" /\ resp.entity = "diet" /\ resp.status = 404
  /\ GetQueryset(db, "diet", resp.user) # {}
  /\ ActiveRows(db, "diet", resp.user) = {}
  /\ \E v \in Users \ {resp.user} : ActiveRows(db, "diet", v) # {}

(***************************************************************************)
(* Read models.  Timestamps are instants; two instants make a day.         *)
(***************************************************************************)
TicksPerDay == 2

DateOf(ts) == ts \div TicksPerDay

\* the ids of S as a sequence in ascending order of key (ties in id order)
RECURSIVE OrderBy(_, _)
OrderBy(S, key) ==
  IF S = {} THEN <<>>
  ELSE LET m == CHOOSE x \in S : \A y \in S :
                   key[x] < key[y] \/ (key[x] = key[y] /\ x <= y)
       IN <<m>> \o OrderBy(S \ {m}, key)

Reverse(sq) == [i \in 1..Len(sq) |-> sq[Len(sq) + 1 - i]]

RECURSIVE SumOver(_, _)
SumOver(S, val) ==
  IF S = {} THEN 0
  ELSE LET x == CHOOSE y \in S : TRUE IN val[x] + SumOver(S \ {x}, val)

\* goals/by_type/?type=ty (no type: all goals of the user)
GoalByTypeRows(d, u, ty) ==
  IF ty # "" THEN {id \in DOMAIN d.goal : d.goal[id].user = u /\ d.goal[id].goal_type = ty}
  ELSE {id \in DOMAIN d.goal : d.goal[id].user = u}

\* goals/upcoming/: active goals with target_date >= today, by target_date
GoalUpcomingRows(d, u, t) ==
  OrderBy({id \in DOMAIN d.goal : d.goal[id].user = u /\ d.goal[id].target_date >= t
                                  /\ d.goal[id].is_active},
          [id \in DOMAIN d.goal |-> d.goal[id].target_date])

\* mutant: a goal whose target date is today is overdue as well
GoalOverdueRows_Lte(d, u, t) ==
  OrderBy({id \in DOMAIN d.goal : d.goal[id].user = u /\ d.goal[id].target_date <= t
                                  /\ d.goal[id].is_active},
          [id \in DOMAIN d.goal |-> d.goal[id].target_date])

\* goals/overdue/: active goals with target_date < today, by target_date
GoalOverdueRows(d, u, t) ==
  OrderBy({id \in DOMAIN d.goal : d.goal[id].user = u /\ d.goal[id].target_date < t
                                  /\ d.goal[id].is_active},
          [id \in DOMAIN d.goal |-> d.goal[id].target_date])

Timestamps(tbl) == [id \in DOMAIN tbl |-> tbl[id].timestamp]

\* mutant: the measurements are not restricted to the three body metrics
ProgressData_AllMetrics(d, u) ==
  LET ms == OrderBy({id \in DOMAIN d.measurement : d.measurement[id].user = u},
                    Timestamps(d.measurement))
  IN IF ms = <<>> THEN <<0>> ELSE <<Len(ms), ms[1], ms[Len(ms)]>>

\* goals/<pk>/progress/: count, first and latest of the user's measurements
\* of the three body metrics in timestamp order; only the count when none
ProgressData(d, u) ==
  LET ms == OrderBy({id \in DOMAIN d.measurement :
                       /\ d.measurement[id].user = u
                       /\ d.measurement[id].metric \in ProgressMetrics},
                    Timestamps(d.measurement))
  IN IF ms = <<>> THEN <<0>> ELSE <<Len(ms), ms[1], ms[Len(ms)]>>

\* measurements of one metric of the user, latest first
MetricRowsDesc(d, u, metric) ==
  Reverse(OrderBy({id \in DOMAIN d.measurement :
                     d.measurement[id].user = u /\ d.measurement[id].metric = metric},
                  Timestamps(d.measurement)))

\* measurements/latest/?metrics=...: for every metric asked for, the first
\* row of the user in descending timestamp order, when there is one
RECURSIVE LatestRows(_, _, _)
LatestRows(d, u, metrics) ==
  IF metrics = <<>> THEN <<>>
  ELSE (IF MetricRowsDesc(d, u, Head(metrics)) # <<>>
        THEN <<MetricRowsDesc(d, u, Head(metrics))[1]>> ELSE <<>>)
       \o LatestRows(d, u, Tail(metrics))

\* measurements/trends/?metric=&days=: rows whose date is in
\* [today - days, today], in ascending timestamp order
TrendRows(d, u, metric, days, t) ==
  OrderBy({id \in DOMAIN d.measurement :
             /\ d.measurement[id].user = u
             /\ d.measurement[id].metric = metric
             /\ DateOf(d.measurement[id].timestamp) >= t - days
             /\ DateOf(d.measurement[id].timestamp) <= t},
          Timestamps(d.measurement))

SummaryMetrics == <<"weight_kg", "waist_cm", "hip_cm", "neck_cm",
                    "body_fat_percentage", "muscle_mass_percentage", "bmi_value">>

\* measurements/summary/: the latest row of each of the seven metrics
SummaryRows(d, u) ==
  {LatestRows(d, u, SummaryMetrics)[i] : i \in 1..Len(LatestRows(d, u, SummaryMetrics))}

\* per-100-unit calories of the ingredients
IngredientCalories == [i \in Ingredients |-> 100 * i]

\* Meal.get_total_calories in hundredths: sum of quantity * calories-per-100
MealCalories(d, m) ==
  SumOver({x \in DOMAIN d.mealingredient : d.mealingredient[x].meal = m},
          [x \in DOMAIN d.mealingredient |->
             d.mealingredient[x].quantity * IngredientCalories[d.mealingredient[x].ingredient]])

Facts == {"calories", "proteins", "fats", "carbs"}

\* per-100-unit nutrition facts of the ingredients
IngredientFacts ==
  [i \in Ingredients |->
     [calories |-> IngredientCalories[i], proteins |-> 10 * i, fats |-> 5 * i,
      carbs |-> 20 * i]]

\* the ingredient associations of a meal (meal.mealingredient_set)
MealIngredientSet(d, m) == {x \in DOMAIN d.mealingredient : d.mealingredient[x].meal = m}

\* mutant: the quantity is divided by 100 with an integer division
MealTotal_FloorDiv(d, m, fact) ==
  SumOver(MealIngredientSet(d, m),
          [x \in DOMAIN d.mealingredient |->
             100 * ((d.mealingredient[x].quantity \div 100)
                      * IngredientFacts[d.mealingredient[x].ingredient][fact])])

\* mutant: the per-100 values are summed without the quantities
MealTotal_Unscaled(d, m, fact) ==
  SumOver(MealIngredientSet(d, m),
          [x \in DOMAIN d.mealingredient |->
             100 * IngredientFacts[d.mealingredient[x].ingredient][fact]])

\* sum((mi.quantity / 100) * mi.ingredient.<fact>) in hundredths
MealTotal(d, m, fact) ==
  SumOver(MealIngredientSet(d, m),
          [x \in DOMAIN d.mealingredient |->
             d.mealingredient[x].quantity
               * IngredientFacts[d.mealingredient[x].ingredient][fact]])

\* the four totals of a meal: calories by Meal.get_total_calories, the
\* macros by the sums of the view
MealFact(d, m, fact) ==
  IF fact = "calories" THEN MealCalories(d, m) ELSE MealTotal(d, m, fact)

\* the body of the meal nutrition summary
MealSummaryBody(d, m) ==
  [total_calories |-> MealFact(d, m, "calories"),
   total_proteins |-> MealFact(d, m, "proteins"),
   total_fats |-> MealFact(d, m, "fats"),
   total_carbs |-> MealFact(d, m, "carbs"),
   ingredient_count |-> Cardinality(MealIngredientSet(d, m))]

\* MealRecord.get_total_<fact> in hundredths: the record's own field when
\* no meal is linked, otherwise the linked meal's total
RecordTotal(d, r, fact) ==
  IF d.mealrecord[r].meal = NoMeal
  THEN 100 * d.mealrecord[r][fact]
  ELSE MealFact(d, d.mealrecord[r].meal, fact)

\* MealRecord.get_total_calories in hundredths: the record's own calories
\* when no meal is linked, otherwise the linked meal's total
RecordCalories(d, r) ==
  IF d.mealrecord[r].meal = NoMeal
  THEN 100 * d.mealrecord[r].calories
  ELSE MealCalories(d, d.mealrecord[r].meal)

\* records/today/
RecordTodayRows(d, u, t) ==
  {r \in DOMAIN d.mealrecord :
     d.mealrecord[r].user = u /\ DateOf(d.mealrecord[r].timestamp) = t}

\* records/nutrition_summary/?days=: total and record_count over the records
\* whose date is in [today - days, today]
RecordSummary(d, u, days, t) ==
  LET rs == {r \in DOMAIN d.mealrecord :
               /\ d.mealrecord[r].user = u
               /\ DateOf(d.mealrecord[r].timestamp) >= t - days
               /\ DateOf(d.mealrecord[r].timestamp) <= t}
  IN <<SumOver(rs, [r \in DOMAIN d.mealrecord |-> RecordCalories(d, r)]),
       Cardinality(rs)>>

\* mutant: the records are not restricted to the date range
RecordWindowRows_AllDates(d, u, days, t) ==
  {r \in DOMAIN d.mealrecord : d.mealrecord[r].user = u}

\* MealRecord.objects.filter(user, timestamp__date__range=[start, end])
RecordWindowRows(d, u, days, t) ==
  {r \in DOMAIN d.mealrecord :
     /\ d.mealrecord[r].user = u
     /\ DateOf(d.mealrecord[r].timestamp) >= t - days
     /\ DateOf(d.mealrecord[r].timestamp) <= t}

\* the body of the record nutrition summary
RecordSummaryBody(d, u, days, t) ==
  LET rs == RecordWindowRows(d, u, days, t)
      total(fact) == SumOver(rs, [r \in DOMAIN d.mealrecord |-> RecordTotal(d, r, fact)])
  IN [period_days |-> days, start_date |-> t - days, end_date |-> t,
      total_calories |-> total("calories"), total_proteins |-> total("proteins"),
      total_fats |-> total("fats"), total_carbs |-> total("carbs"),
      record_count |-> Cardinality(rs)]

\* preferences/by_type/?type=ty
PreferenceByTypeRows(d, u, ty) ==
  IF ty # ""
  THEN {id \in DOMAIN d.mealpreference :
          d.mealpreference[id].user = u /\ d.mealpreference[id].preference_type = ty}
  ELSE {id \in DOMAIN d.mealpreference : d.mealpreference[id].user = u}

(***************************************************************************)
(* Read and detail actions of the view sets.                               *)
(***************************************************************************)
\* mutant: a read that empties the tables it has read
Answer_Wipe(r) ==
  /\ resp' = r
  /\ db' = [e \in DOMAIN db |-> EmptyTable]
  /\ UNCHANGED <<seq, today, procs>>

Answer(r) == resp' = r /\ UNCHANGED <<db, seq, today, procs>>

GoalByType(u, ty) ==
  Answer(Response(u, "by_type", "goal", 0, 200, GoalByTypeRows(db, u, ty), u))

GoalUpcoming(u) ==
  Answer(BodyResponse(u, "upcoming", "goal", 0, 200, GoalUpcomingRows(db, u, today)))

GoalOverdue(u) ==
  Answer(BodyResponse(u, "overdue", "goal", 0, 200, GoalOverdueRows(db, u, today)))

\* the body of the progress response of goal pk
ProgressBody(d, u, pk) ==
  LET pd == ProgressData(d, u)
  IN IF pd[1] = 0
     THEN [goal |-> pk, progress |-> "No measurements recorded yet",
           measurements_count |-> 0]
     ELSE [goal |-> pk, latest_measurement |-> pd[3], first_measurement |-> pd[2],
           measurements_count |-> pd[1],
           days_since_start |-> DateOf(d.measurement[pd[3]].timestamp)
                                  - DateOf(d.measurement[pd[2]].timestamp)]

GoalProgress(u, pk) ==
  Answer(IF ObjectFound(db, "goal", u, pk)
         THEN BodyResponse(u, "progress", "goal", pk, 200, ProgressBody(db, u, pk))
         ELSE Response(u, "progress", "goal", pk, 404, {}, u))

MeasurementLatest(u, metrics) ==
  Answer([BodyResponse(u, "latest", "measurement", 0, 200, LatestRows(db, u, metrics))
            EXCEPT !.data = metrics])

MeasurementByMetric(u, metric) ==
  Answer(IF metric = ""
         THEN Response(u, "by_metric", "measurement", 0, 400, {}, u)
         ELSE BodyResponse(u, "by_metric", "measurement", 0, 200,
                           MetricRowsDesc(db, u, metric)))

\* the dates a datetime.date can hold, date.min .. date.max, scaled to the
\* model's calendar: DateSpan days on either side of Dates
MinDate == 0 - DateSpan

MaxDate == MaxDay + DateSpan

\* end_date - timedelta(days=days) raises OverflowError when the result is
\* not a date; no handler catches it and the request ends as a 500
WindowStatus(days, t) ==
  IF t - days >= MinDate /\ t - days <= MaxDate THEN 200 ELSE 500

\* one entry of trend_data
TrendEntry(d, id) ==
  [date |-> DateOf(d.measurement[id].timestamp),
   value |-> d.measurement[id].value,
   measurement_type |-> d.measurement[id].measurement_type]

\* mutant: the lower bound of the window is excluded
TrendsBody_OpenStart(d, u, metric, days, t) ==
  LET rows == SelectSeq(TrendRows(d, u, metric, days, t),
                        LAMBDA id : DateOf(d.measurement[id].timestamp) > t - days)
  IN [metric |-> metric, period_days |-> days, start_date |-> t - days,
      end_date |-> t,
      measurements |-> [i \in 1..Len(rows) |-> TrendEntry(d, rows[i])],
      count |-> Len(rows)]

\* the body of the trends response
TrendsBody(d, u, metric, days, t) ==
  LET rows == TrendRows(d, u, metric, days, t)
  IN [metric |-> metric, period_days |-> days, start_date |-> t - days,
      end_date |-> t,
      measurements |-> [i \in 1..Len(rows) |-> TrendEntry(d, rows[i])],
      count |-> Len(rows)]

MeasurementTrends(u, metric, days) ==
  Answer([BodyResponse(u, "trends", "measurement", 0, WindowStatus(days, today),
                       IF WindowStatus(days, today) = 200
                       THEN TrendsBody(db, u, metric, days, today)
                       ELSE <<>>)
            EXCEPT !.data = <<metric, days>>])

MeasurementSummary(u) ==
  Answer(Response(u, "summary", "measurement", 0, 200, SummaryRows(db, u), u))

\* GET meals/<pk>/ingredients/
MealIngredients(u, pk) ==
  Answer(IF ObjectFound(db, "meal", u, pk)
         THEN Response(u, "ingredients", "meal", pk, 200,
                       {x \in DOMAIN db.mealingredient : db.mealingredient[x].meal = pk}, u)
         ELSE Response(u, "ingredients", "meal", pk, 404, {}, u))

\* POST meals/<pk>/add_ingredient/: data['meal'] = meal.id, then the
\* MealIngredientSerializer validates and saves
MealAddIngredient(u, pk, p) ==
  /\ IF ~ObjectFound(db, "meal", u, pk)
     THEN /\ resp' = Response(u, "add_ingredient", "meal", pk, 404, {}, p.user)
          /\ UNCHANGED <<db, seq>>
     ELSE IF ~IsValid(db, "mealingredient", [p EXCEPT !.meal = pk])
     THEN /\ resp' = Response(u, "add_ingredient", "meal", pk, 400, {}, p.user)
          /\ UNCHANGED <<db, seq>>
     ELSE /\ db' = Save(db, "mealingredient", seq["mealingredient"] + 1,
                        ValidatedData("mealingredient", [p EXCEPT !.meal = pk]))
          /\ seq' = [seq EXCEPT !["mealingredient"] = @ + 1]
          /\ resp' = Response(u, "add_ingredient", "meal", pk, 201,
                              {seq["mealingredient"] + 1}, p.user)
  /\ UNCHANGED <<today, procs>>

\* GET meals/<pk>/nutrition_summary/
MealNutritionSummary(u, pk) ==
  Answer(IF ObjectFound(db, "meal", u, pk)
         THEN BodyResponse(u, "nutrition_summary", "meal", pk, 200,
                           MealSummaryBody(db, pk))
         ELSE Response(u, "nutrition_summary", "meal", pk, 404, {}, u))

RecordToday(u) ==
  Answer(Response(u, "today", "mealrecord", 0, 200, RecordTodayRows(db, u, today), u))

RecordNutritionSummary(u, days) ==
  Answer([BodyResponse(u, "nutrition_summary", "mealrecord", 0,
                       WindowStatus(days, today),
                       IF WindowStatus(days, today) = 200
                       THEN RecordSummaryBody(db, u, days, today)
                       ELSE <<>>)
            EXCEPT !.data = <<days>>])

PreferenceByType(u, ty) ==
  Answer(Response(u, "by_type", "mealpreference", 0, 200,
                  PreferenceByTypeRows(db, u, ty), u))

(***************************************************************************)
(* The whole API with two users: every view set, every request.  A run     *)
(* stays within one family of related tables and MaxRecords rows.          *)
(***************************************************************************)
Family(e) ==
  CASE e \in {"goal", "measurement"} -> {"goal", "measurement"}
    [] e \in {"diet", "meal", "mealingredient", "mealrecord"} ->
         {"diet", "meal", "mealingredient", "mealrecord"}
    [] OTHER -> {"mealpreference"}

RECURSIVE Allocated(_)
Allocated(E) ==
  IF E = {} THEN 0
  ELSE LET e == CHOOSE x \in E : TRUE IN seq[e] + Allocated(E \ {e})

CanCreate(e) ==
  /\ seq[e] < MaxPerEntity
  /\ Allocated(Entities) < MaxRecords
  /\ \A f \in Entities \ Family(e) : seq[f] = 0

OwnerPayloads(e) ==
  CASE e = "goal" -> [user : {"bob"}, goal_type : {"weight_loss"}, target_date : {0},
                      notes : {"a", "b"}, is_active : {FALSE}]
    [] e = "measurement" -> [user : {"bob"}, metric : {"weight_kg"},
                             measurement_type : {"log"}, value : {70, 80},
                             timestamp : {0}]
    [] e = "diet" -> [user : {"bob"}, name : {"a", "b"}, is_active : {FALSE}]
    [] e = "meal" -> [user : {"bob"}, diet : {1, 2}, name : {"a"}]
    [] e = "mealingredient" -> [user : {"bob"}, meal : {1, 2}, ingredient : {1},
                                quantity : {100, 200}]
    [] e = "mealrecord" -> [user : {"bob"}, meal : {NoMeal, 1}, calories : {50},
                            proteins : {5}, fats : {2}, carbs : {10},
                            timestamp : {0}]
    [] OTHER -> [user : {"bob"}, ingredient : {1}, preference_type : {"love", "hate"}]

Ids(e) == 1..seq[e]

DefaultMetrics == <<"weight_kg", "body_fat_percentage", "muscle_mass_percentage">>

NextOwner ==
  \E u \in Users :
    \/ \E e \in Entities : \E p \in OwnerPayloads(e) : CanCreate(e) /\ Create(u, e, p)
    \/ \E e \in Entities : \E pk \in Ids(e) : Retrieve(u, e, pk)
    \/ \E e \in Entities : \E pk \in Ids(e), p \in OwnerPayloads(e) : Update(u, e, pk, p)
    \/ \E e \in Entities : \E pk \in Ids(e) : Destroy(u, e, pk)
    \/ \E e \in {"goal", "diet"} : \E pk \in Ids(e) : Activate(u, e, pk)
    \/ \E pk \in Ids("goal") : Deactivate(u, pk)
    \/ \E pk \in Ids("goal") : GoalProgress(u, pk)
    \/ \E pk \in Ids("meal") : MealIngredients(u, pk)
    \/ \E pk \in Ids("meal"), p \in OwnerPayloads("mealingredient") :
          CanCreate("mealingredient") /\ MealAddIngredient(u, pk, p)
    \/ \E pk \in Ids("meal") : MealNutritionSummary(u, pk)

SpecOwner == Init /\ [][NextOwner]_vars

\* the rows user u owns, table by table
OwnedRows(d, u) == [e \in Entities |-> Restrict(d[e], GetQueryset(d, e, u))]

DetailOps == {"retrieve", "update", "destroy", "activate", "deactivate", "progress",
              "ingredients", "add_ingredient", "nutrition_summary"}

\* C7: a request of user A that addresses by id a row owned by another user
\* is answered 404 and changes nothing, for every owner-scoped entity type.
C7_CrossOwnerNotFound ==
  [][(/\ resp'.op \in DetailOps
      /\ resp'.pk \in DOMAIN db[resp'.entity]
      /\ Owner(db, resp'.entity, resp'.pk) # resp'.user)
     => (resp'.status = 404 /\ db' = db)]_vars

\* alice's update of bob's meal ingredient was answered 404 and the row is
\* still there
C7_Witness ==
  /\ resp.op = "update" /\ resp.entity = "mealingredient" /\ resp.status = 404
  /\ resp.pk \in DOMAIN db.mealingredient
  /\ Owner(db, "mealingredient", resp.pk) # resp.user

\* C8: no request of user A creates, changes or deletes a row that belongs to
\* another user B.
C8_OnlyOwnerMutates ==
  [][\A b \in Users : resp'.user # b => OwnedRows(db', b) = OwnedRows(db, b)]_vars

\* C10: a row created through the create endpoint of Goal, BodyMeasurement,
\* Diet, MealRecord or MealPreference is owned by the requester, whatever
\* owner the payload carries.
C10_CreatedRowOwnedByRequester ==
  (resp.op = "create" /\ resp.status = 201 /\ resp.entity \in UserScoped)
    => (resp.pk \in DOMAIN db[resp.entity] /\ db[resp.entity][resp.pk].user = resp.user)

\* a meal record was created by a requester whose payload named another owner
C10_Witness ==
  /\ resp.op = "create" /\ resp.status = 201 /\ resp.entity = "mealrecord"
  /\ resp.puser # resp.user
  /\ db.mealrecord[resp.pk].user = resp.user

(***************************************************************************)
(* Writes and the list and aggregation reads, on any day.                  *)
(***************************************************************************)
CanCreateRead(e) ==
  /\ seq[e] < MaxPerEntity
  /\ \A f \in Entities \ Family(e) : seq[f] = 0

NextRead ==
  \E u \in Users :
    \/ \E e \in Entities : \E p \in OwnerPayloads(e) : CanCreateRead(e) /\ Create(u, e, p)
    \/ \E e \in Entities : \E pk \in Ids(e), p \in OwnerPayloads(e) : Update(u, e, pk, p)
    \/ \E e \in Entities : \E pk \in Ids(e) : Destroy(u, e, pk)
    \/ \E e \in Entities : List(u, e)
    \/ GoalActive(u)
    \/ \E ty \in {"", "weight_loss"} : GoalByType(u, ty)
    \/ GoalUpcoming(u)
    \/ GoalOverdue(u)
    \/ \E pk \in Ids("goal") : GoalProgress(u, pk)
    \/ MeasurementLatest(u, DefaultMetrics)
    \/ \E m \in {"", "weight_kg"} : MeasurementByMetric(u, m)
    \/ \E days \in {0, 1} : MeasurementTrends(u, "weight_kg", days)
    \/ MeasurementSummary(u)
    \/ DietActive(u)
    \/ RecordToday(u)
    \/ \E days \in {0, 1} : RecordNutritionSummary(u, days)
    \/ \E ty \in {"", "love"} : PreferenceByType(u, ty)

InitAnyDay ==
  /\ db = [e \in Entities |-> EmptyTable]
  /\ seq = [e \in Entities |-> 0]
  /\ today \in Dates
  /\ resp = NoResponse
  /\ procs = [p \in Procs |-> IdleProc]

SpecRead == InitAnyDay /\ [][NextRead]_vars

\* every list and aggregation response of user u
AllResponses(d, u, t) ==
  [goal_list |-> GetQueryset(d, "goal", u),
   goal_active |-> ActiveRows(d, "goal", u),
   goal_by_type |-> [ty \in GoalTypes \cup {""} |-> GoalByTypeRows(d, u, ty)],
   goal_upcoming |-> GoalUpcomingRows(d, u, t),
   goal_overdue |-> GoalOverdueRows(d, u, t),
   goal_progress |-> ProgressData(d, u),
   measurement_list |-> GetQueryset(d, "measurement", u),
   latest |-> LatestRows(d, u, DefaultMetrics),
   by_metric |-> [m \in Metrics |-> MetricRowsDesc(d, u, m)],
   trends |-> [m \in Metrics |-> [days \in 0..MaxDay |-> TrendRows(d, u, m, days, t)]],
   summary |-> SummaryRows(d, u),
   diet_list |-> GetQueryset(d, "diet", u),
   diet_active |-> <<DietActiveStatus(d, u), ActiveRows(d, "diet", u)>>,
   meal_list |-> GetQueryset(d, "meal", u),
   record_list |-> GetQueryset(d, "mealrecord", u),
   record_today |-> RecordTodayRows(d, u, t),
   record_summary |-> [days \in 0..MaxDay |-> RecordSummary(d, u, days, t)],
   preference_list |-> GetQueryset(d, "mealpreference", u),
   preference_by_type |-> [ty \in {"", "love", "hate"} |-> PreferenceByTypeRows(d, u, ty)]]

\* C9: the list and aggregation responses of a user depend on that user's
\* rows only: a step that leaves the user's rows (and the day) as they were
\* leaves every response of the user as it was.
C9_ResponsesFromOwnRowsOnly ==
  [][\A u \in Users :
       (OwnedRows(db', u) = OwnedRows(db, u) /\ today' = today)
         => AllResponses(db', u, today') = AllResponses(db, u, today)]_vars

(***************************************************************************)
(* BodyMeasurementViewSet: create, delete, latest and trends, on any day.  *)
(***************************************************************************)
MeasPayloads ==
  [user : {"bob"}, metric : {"weight_kg"}, measurement_type : {"log"},
   value : {70}, timestamp : {0, 1, TicksPerDay}]
  \cup [user : {"bob"}, metric : {"waist_cm"}, measurement_type : {"baseline"},
        value : {80}, timestamp : {0, 1, TicksPerDay}]

MetricLists ==
  {<<>>, <<"weight_kg">>, <<"weight_kg", "weight_kg">>, <<"waist_cm", "weight_kg">>,
   DefaultMetrics}

\* the days parameter: no days, one day either way, and the first values on
\* either side that leave the calendar on every day
DaysInputs == {0 - MaxDay - DateSpan - 1, 0 - 1, 0, 1, MaxDay + DateSpan + 1}

NextMeas ==
  \E u \in Users :
    \/ \E p \in MeasPayloads :
          seq["measurement"] < MaxMeas /\ Create(u, "measurement", p)
    \/ \E pk \in Ids("measurement") : Destroy(u, "measurement", pk)
    \/ \E ms \in MetricLists : MeasurementLatest(u, ms)
    \/ \E m \in Metrics, days \in DaysInputs : MeasurementTrends(u, m, days)

SpecMeas == InitAnyDay /\ [][NextMeas]_vars

\* the measurements of user u of one metric
MetricRows(d, u, metric) ==
  {id \in DOMAIN d.measurement :
     d.measurement[id].user = u /\ d.measurement[id].metric = metric}

\* C11: for any list of requested metrics, a list that repeats a metric
\* included, latest returns at most one entry per requested metric, only for
\* metrics the owner has a measurement of, and each entry's timestamp is at
\* least the timestamp of every other measurement of that metric and owner.
C11_LatestOnePerMetric ==
  (resp.op = "latest" /\ resp.status = 200) =>
    /\ \A m \in Metrics \cup ProgressMetrics :
         Cardinality({i \in 1..Len(resp.body) :
                        db.measurement[resp.body[i]].metric = m}) <= 1
    /\ \A i \in 1..Len(resp.body) :
         /\ resp.body[i] \in DOMAIN db.measurement
         /\ db.measurement[resp.body[i]].user = resp.user
         /\ \E k \in 1..Len(resp.data) :
              db.measurement[resp.body[i]].metric = resp.data[k]
         /\ \A o \in MetricRows(db, resp.user, db.measurement[resp.body[i]].metric) :
              db.measurement[resp.body[i]].timestamp >= db.measurement[o].timestamp

\* the measurements of the trends request's metric and user whose date is in
\* the window [today - days, today]
TrendWindow(d, r, t) ==
  {id \in MetricRows(d, r.user, r.data[1]) :
     /\ DateOf(d.measurement[id].timestamp) >= t - r.data[2]
     /\ DateOf(d.measurement[id].timestamp) <= t}

\* C12: for every number of days, trends returns no entry dated outside
\* [today - days, today]; when no measurement of the owner is in the window
\* it answers with an empty sequence and count 0, not with an error.
C12_TrendsWindowNoError ==
  resp.op = "trends" =>
    /\ resp.status = 200
    /\ \A i \in 1..Len(resp.body.measurements) :
         /\ resp.body.measurements[i].date >= today - resp.data[2]
         /\ resp.body.measurements[i].date <= today
    /\ TrendWindow(db, resp, today) = {} =>
         (resp.body.measurements = <<>> /\ resp.body.count = 0)

\* C13: a trends response holds every measurement of the metric and owner
\* dated in the window, both bounds included, in ascending timestamp order,
\* and its count is the length of the sequence.
C13_TrendsCompleteOrdered ==
  (resp.op = "trends" /\ resp.status = 200) =>
    LET W == TrendWindow(db, resp, today)
        ms == resp.body.measurements
    IN /\ Len(ms) = Cardinality(W)
       /\ resp.body.count = Len(ms)
       /\ \E f \in [1..Len(ms) -> W] :
            /\ \A i, j \in 1..Len(ms) : i # j => f[i] # f[j]
            /\ \A i \in 1..Len(ms) : ms[i] = TrendEntry(db, f[i])
            /\ \A i, j \in 1..Len(ms) :
                 i < j => db.measurement[f[i]].timestamp <= db.measurement[f[j]].timestamp

\* a trends response over one day that holds a measurement dated today - 1
\* and one dated today
C13_Witness ==
  /\ resp.op = "trends" /\ resp.status = 200 /\ resp.data[2] = 1
  /\ resp.body.count = 2
  /\ \E i, j \in 1..Len(resp.body.measurements) :
       /\ resp.body.measurements[i].date = today - 1
       /\ resp.body.measurements[j].date = today

(***************************************************************************)
(* GoalViewSet.progress over goals of two categories and measurements of   *)
(* metrics inside and outside the fixed triple.                            *)
(***************************************************************************)
ProgressGoalPayloads ==
  [user : {"bob"}, goal_type : GoalTypes, target_date : {0}, notes : {"a"},
   is_active : {FALSE}]

ProgressMeasPayloads ==
  [user : {"bob"}, metric : {"weight_kg", "body_fat_percentage", "waist_cm"},
   measurement_type : {"log"}, value : {70}, timestamp : {0, TicksPerDay}]

NextProgress ==
  \E u \in Users :
    \/ \E p \in ProgressGoalPayloads :
          seq["goal"] < MaxProgressGoals /\ Create(u, "goal", p)
    \/ \E p \in ProgressMeasPayloads :
          seq["measurement"] < MaxMeas /\ Create(u, "measurement", p)
    \/ \E pk \in Ids("goal") : GoalProgress(u, pk)

SpecProgress == Init /\ [][NextProgress]_vars

\* the measurements of user u of the three body metrics
BodyMetricRows(d, u) ==
  {id \in DOMAIN d.measurement :
     d.measurement[id].user = u /\ d.measurement[id].metric \in ProgressMetrics}

\* C14: progress reports the earliest and the latest of the owner's
\* measurements of weight_kg, body_fat_percentage and muscle_mass_percentage
\* and their number, the same for goals of every category; without such a
\* measurement it answers the no-data result with measurements_count 0.
C14_ProgressFirstLatestCount ==
  (resp.op = "progress" /\ resp.status = 200) =>
    LET S == BodyMetricRows(db, resp.user)
        b == resp.body
    IN /\ IF S = {}
          THEN b.measurements_count = 0 /\ b.progress = "No measurements recorded yet"
          ELSE /\ b.measurements_count = Cardinality(S)
               /\ b.first_measurement \in S
               /\ b.latest_measurement \in S
               /\ \A o \in S :
                    /\ db.measurement[b.first_measurement].timestamp
                         <= db.measurement[o].timestamp
                    /\ db.measurement[b.latest_measurement].timestamp
                         >= db.measurement[o].timestamp
       /\ \A g \in GetQueryset(db, "goal", resp.user) :
            [ProgressBody(db, resp.user, g) EXCEPT !.goal = 0] = [b EXCEPT !.goal = 0]

\* progress of a muscle_gain goal whose owner also has a weight_loss goal
\* and two measurements of the triple on different days
C14_Witness ==
  /\ resp.op = "progress" /\ resp.status = 200
  /\ db.goal[resp.pk].goal_type = "muscle_gain"
  /\ \E g \in GetQueryset(db, "goal", resp.user) : db.goal[g].goal_type = "weight_loss"
  /\ resp.body.measurements_count = 2
  /\ resp.body.days_since_start = 1

(***************************************************************************)
(* GoalViewSet.upcoming and overdue, on any day.                           *)
(***************************************************************************)
DatedGoalPayloads ==
  [user : {"bob"}, goal_type : {"weight_loss"}, target_date : Dates, notes : {"a"},
   is_active : BOOLEAN]

NextDates ==
  \E u \in Users :
    \/ \E p \in DatedGoalPayloads : seq["goal"] < MaxGoals /\ Create(u, "goal", p)
    \/ \E pk \in Ids("goal") : Activate(u, "goal", pk)
    \/ \E pk \in Ids("goal") : Deactivate(u, pk)
    \/ GoalUpcoming(u)
    \/ GoalOverdue(u)

SpecDates == InitAnyDay /\ [][NextDates]_vars

\* the elements of a sequence
SeqRange(sq) == {sq[i] : i \in 1..Len(sq)}

\* C15: upcoming and overdue partition the owner's active goals: an active
\* goal is in upcoming when its target date is on or after today and in
\* overdue when it is before, never in both, and no inactive goal is in either.
C15_UpcomingOverduePartition ==
  /\ resp.op = "upcoming" =>
       /\ SeqRange(resp.body) = {g \in ActiveRows(db, "goal", resp.user) :
                                   db.goal[g].target_date >= today}
       /\ Len(resp.body) = Cardinality(SeqRange(resp.body))
  /\ resp.op = "overdue" =>
       /\ SeqRange(resp.body) = {g \in ActiveRows(db, "goal", resp.user) :
                                   db.goal[g].target_date < today}
       /\ Len(resp.body) = Cardinality(SeqRange(resp.body))
  /\ \A u \in Users :
       /\ SeqRange(GoalUpcomingRows(db, u, today)) \cap SeqRange(GoalOverdueRows(db, u, today))
            = {}
       /\ SeqRange(GoalUpcomingRows(db, u, today)) \cup SeqRange(GoalOverdueRows(db, u, today))
            = ActiveRows(db, "goal", u)

\* overdue answered with a goal while the owner also has an active goal due
\* today and an inactive goal
C15_Witness ==
  /\ resp.op = "overdue" /\ Len(resp.body) = 1
  /\ \E g \in ActiveRows(db, "goal", resp.user) : db.goal[g].target_date = today
  /\ \E g \in GetQueryset(db, "goal", resp.user) : ~db.goal[g].is_active

(***************************************************************************)
(* MealViewSet.nutrition_summary over meals with several ingredient        *)
(* associations.                                                           *)
(***************************************************************************)
OneDietPayloads == [user : {"bob"}, name : {"a"}, is_active : {FALSE}]

MealPayloads == [user : {"bob"}, diet : {1}, name : {"a"}]

MealIngredientPayloads ==
  [user : {"bob"}, meal : 1..MaxMeals, ingredient : Ingredients,
   quantity : {50, 100, 200}]

NextMeal ==
  \E u \in Users :
    \/ \E p \in OneDietPayloads : seq["diet"] < MaxPerEntity /\ Create(u, "diet", p)
    \/ \E p \in MealPayloads : seq["meal"] < MaxMeals /\ Create(u, "meal", p)
    \/ \E p \in MealIngredientPayloads :
          seq["mealingredient"] < MaxMealIngredients /\ Create(u, "mealingredient", p)
    \/ \E pk \in Ids("meal") : \E p \in MealIngredientPayloads :
          seq["mealingredient"] < MaxMealIngredients /\ MealAddIngredient(u, pk, p)
    \/ \E pk \in Ids("meal") : MealNutritionSummary(u, pk)

SpecMeal == Init /\ [][NextMeal]_vars

\* the sum over the ingredient associations of meal m of quantity times the
\* per-100 value of the fact, in hundredths
ScaledSum(d, m, fact) ==
  SumOver({x \in DOMAIN d.mealingredient : d.mealingredient[x].meal = m},
          [x \in DOMAIN d.mealingredient |->
             d.mealingredient[x].quantity
               * IngredientFacts[d.mealingredient[x].ingredient][fact]])

\* C16: each of the four totals of the meal nutrition summary is the sum
\* over the meal's ingredient associations of (quantity / 100) times the
\* ingredient's per-100 value; a meal without associations gives zero
\* totals and ingredient_count 0.
C16_MealTotalsAreScaledSums ==
  (resp.op = "nutrition_summary" /\ resp.entity = "meal" /\ resp.status = 200) =>
    LET n == Cardinality({x \in DOMAIN db.mealingredient :
                            db.mealingredient[x].meal = resp.pk})
    IN /\ resp.body.total_calories = ScaledSum(db, resp.pk, "calories")
       /\ resp.body.total_proteins = ScaledSum(db, resp.pk, "proteins")
       /\ resp.body.total_fats = ScaledSum(db, resp.pk, "fats")
       /\ resp.body.total_carbs = ScaledSum(db, resp.pk, "carbs")
       /\ resp.body.ingredient_count = n
       /\ n = 0 => /\ resp.body.total_calories = 0 /\ resp.body.total_proteins = 0
                   /\ resp.body.total_fats = 0 /\ resp.body.total_carbs = 0

\* the summary of a meal with two associations of different ingredients and
\* quantities
C16_Witness ==
  /\ resp.op = "nutrition_summary" /\ resp.entity = "meal" /\ resp.status = 200
  /\ resp.body.ingredient_count = 2
  /\ \E x, y \in DOMAIN db.mealingredient :
       /\ db.mealingredient[x].meal = resp.pk /\ db.mealingredient[y].meal = resp.pk
       /\ db.mealingredient[x].ingredient # db.mealingredient[y].ingredient
       /\ db.mealingredient[x].quantity # db.mealingredient[y].quantity

\* the store with the quantity of every ingredient association of meal m doubled
DoubledQuantities(d, m) ==
  [d EXCEPT !.mealingredient = [x \in DOMAIN @ |->
      IF @[x].meal = m THEN [@[x] EXCEPT !.quantity = 2 * @] ELSE @[x]]]

\* C17: the meal totals are linear in the quantities: doubling the quantity
\* of every ingredient association of a meal doubles each of its four totals.
C17_MealTotalsLinear ==
  \A m \in DOMAIN db.meal :
    /\ MealSummaryBody(DoubledQuantities(db, m), m).total_calories
         = 2 * MealSummaryBody(db, m).total_calories
    /\ MealSummaryBody(DoubledQuantities(db, m), m).total_proteins
         = 2 * MealSummaryBody(db, m).total_proteins
    /\ MealSummaryBody(DoubledQuantities(db, m), m).total_fats
         = 2 * MealSummaryBody(db, m).total_fats
    /\ MealSummaryBody(DoubledQuantities(db, m), m).total_carbs
         = 2 * MealSummaryBody(db, m).total_carbs

\* a summary of a meal with two associations of the same ingredient, one of
\* them of quantity 50, whose totals are not zero
C17_Witness ==
  /\ resp.op = "nutrition_summary" /\ resp.entity = "meal" /\ resp.status = 200
  /\ resp.body.ingredient_count = 2
  /\ resp.body.total_proteins > 0
  /\ \E x \in DOMAIN db.mealingredient :
       db.mealingredient[x].meal = resp.pk /\ db.mealingredient[x].quantity = 50
  /\ \A x, y \in DOMAIN db.mealingredient :
       db.mealingredient[x].ingredient = db.mealingredient[y].ingredient

(***************************************************************************)
(* MealRecordViewSet.nutrition_summary over records with and without a     *)
(* meal, on any day.                                                       *)
(***************************************************************************)
RecordPayloads ==
  [user : {"bob"}, meal : {NoMeal, 1}, calories : {50}, proteins : {5}, fats : {2},
   carbs : {10}, timestamp : {0, TicksPerDay}]

RecordMealIngredientPayloads ==
  [user : {"bob"}, meal : {1}, ingredient : {1}, quantity : {200}]

NextRecord ==
  \E u \in Users :
    \/ \E p \in OneDietPayloads : seq["diet"] < MaxPerEntity /\ Create(u, "diet", p)
    \/ \E p \in MealPayloads : seq["meal"] < MaxPerEntity /\ Create(u, "meal", p)
    \/ \E pk \in Ids("meal") : \E p \in RecordMealIngredientPayloads :
          seq["mealingredient"] < MaxPerEntity /\ MealAddIngredient(u, pk, p)
    \/ \E p \in RecordPayloads :
          seq["mealrecord"] < MaxMealRecords /\ Create(u, "mealrecord", p)
    \/ \E days \in DaysInputs : RecordNutritionSummary(u, days)

SpecRecord == InitAnyDay /\ [][NextRecord]_vars

\* the records of the summary request's user dated in [today - days, today]
SummaryWindow(d, r, t) ==
  {x \in DOMAIN d.mealrecord :
     /\ d.mealrecord[x].user = r.user
     /\ DateOf(d.mealrecord[x].timestamp) >= t - r.data[1]
     /\ DateOf(d.mealrecord[x].timestamp) <= t}

\* a record's own total of a fact: its field without a meal, else the scaled
\* sum of the linked meal
OwnTotal(d, x, fact) ==
  IF d.mealrecord[x].meal = NoMeal
  THEN 100 * d.mealrecord[x][fact]
  ELSE ScaledSum(d, d.mealrecord[x].meal, fact)

\* C18: the record nutrition summary over N days sums, for exactly the
\* owner's records dated in [today - N, today], each record's own totals
\* (its direct fields without a meal, else the linked meal's totals);
\* record_count is the number of records summed.
C18_RecordSummaryOverWindow ==
  (resp.op = "nutrition_summary" /\ resp.entity = "mealrecord" /\ resp.status = 200) =>
    LET W == SummaryWindow(db, resp, today)
        total(fact) == SumOver(W, [x \in DOMAIN db.mealrecord |-> OwnTotal(db, x, fact)])
    IN /\ resp.body.total_calories = total("calories")
       /\ resp.body.total_proteins = total("proteins")
       /\ resp.body.total_fats = total("fats")
       /\ resp.body.total_carbs = total("carbs")
       /\ resp.body.record_count = Cardinality(W)

\* a summary over one record with a meal that has an ingredient, while a
\* record of the user without a meal is outside the window
C18_Witness ==
  /\ resp.op = "nutrition_summary" /\ resp.entity = "mealrecord" /\ resp.status = 200
  /\ resp.body.record_count = 1
  /\ resp.body.total_calories > 0
  /\ \E x \in SummaryWindow(db, resp, today) : db.mealrecord[x].meal # NoMeal
  /\ \E y \in GetQueryset(db, "mealrecord", resp.user) \ SummaryWindow(db, resp, today) :
       db.mealrecord[y].meal = NoMeal

(***************************************************************************)
(* BodyMeasurementViewSet.bulk_create.                                     *)
(***************************************************************************)
\* the owner of a row saved without a user
NoUser == "null"

\* serializer.save() of bulk_create: the validated data and no user (the
\* 'user' key put into the record is a read-only field of the serializer)
BulkRow(p) == [user |-> NoUser] @@ ValidatedData("measurement", p)

\* mutant: the rows saved before an invalid record are removed again
RECURSIVE BulkRun_Rollback(_, _, _, _)
BulkRun_Rollback(d, next, records, created) ==
  IF records = <<>>
  THEN [db |-> d, next |-> next, created |-> created, status |-> 201]
  ELSE IF MeasurementValid(Head(records))
  THEN BulkRun_Rollback(Save(d, "measurement", next + 1, BulkRow(Head(records))),
                        next + 1, Tail(records), Append(created, next + 1))
  ELSE [db |-> [d EXCEPT !.measurement =
                  Restrict(@, DOMAIN @ \ {created[i] : i \in 1..Len(created)})],
        next |-> next, created |-> <<>>, status |-> 400]

\* mutant: the created records are collected in reverse order
RECURSIVE BulkRun_Prepend(_, _, _, _)
BulkRun_Prepend(d, next, records, created) ==
  IF records = <<>>
  THEN [db |-> d, next |-> next, created |-> created, status |-> 201]
  ELSE IF MeasurementValid(Head(records))
  THEN BulkRun_Prepend(Save(d, "measurement", next + 1, BulkRow(Head(records))),
                       next + 1, Tail(records), <<next + 1>> \o created)
  ELSE [db |-> d, next |-> next, created |-> created, status |-> 400]

\* the loop of bulk_create: every record is validated and saved in turn;
\* the first invalid record ends the request with a 400
RECURSIVE BulkRun(_, _, _, _)
BulkRun(d, next, records, created) ==
  IF records = <<>>
  THEN [db |-> d, next |-> next, created |-> created, status |-> 201]
  ELSE IF MeasurementValid(Head(records))
  THEN BulkRun(Save(d, "measurement", next + 1, BulkRow(Head(records))),
               next + 1, Tail(records), Append(created, next + 1))
  ELSE [db |-> d, next |-> next, created |-> created, status |-> 400]

\* POST measurements/bulk_create/
BulkCreate(u, records) ==
  LET run == BulkRun(db, seq["measurement"], records, <<>>)
  IN /\ db' = run.db
     /\ seq' = [seq EXCEPT !["measurement"] = run.next]
     /\ resp' = [BodyResponse(u, "bulk_create", "measurement", 0, run.status,
                               IF run.status = 201 THEN run.created ELSE <<>>)
                   EXCEPT !.data = records]
     /\ UNCHANGED <<today, procs>>

BulkRecords ==
  [user : {"bob"}, metric : {"weight_kg", "bogus"}, measurement_type : {"log"},
   value : {70}, timestamp : {0}]
  \cup [user : {"bob"}, metric : {"waist_cm"}, measurement_type : {"baseline"},
        value : {80}, timestamp : {1}]

\* the batches of at most MaxBatch records
BulkBatches == UNION {[1..n -> BulkRecords] : n \in 0..MaxBatch}

SinglePayloads ==
  [user : {"bob"}, metric : {"weight_kg", "bogus"}, measurement_type : {"log"},
   value : {70}, timestamp : {0}]

NextBulk ==
  \E u \in Users :
    \/ \E p \in SinglePayloads :
          seq["measurement"] < MaxBulkRows /\ Create(u, "measurement", p)
    \/ \E records \in BulkBatches :
          seq["measurement"] + Len(records) <= MaxBulkRows /\ BulkCreate(u, records)
    \/ List(u, "measurement")

SpecBulk == Init /\ [][NextBulk]_vars

\* the position of the first invalid record of a batch, 0 when all are valid
FirstInvalid(records) ==
  IF \A i \in 1..Len(records) : MeasurementValid(records[i]) THEN 0
  ELSE CHOOSE k \in 1..Len(records) :
         /\ ~MeasurementValid(records[k])
         /\ \A i \in 1..(k - 1) : MeasurementValid(records[i])

\* the rows of table tbl2 that table tbl1 does not have
NewRows(tbl1, tbl2) == DOMAIN tbl2 \ DOMAIN tbl1

\* the data of row id is the validated data of record p
RowHolds(tbl, id, p) ==
  /\ tbl[id].metric = p.metric /\ tbl[id].measurement_type = p.measurement_type
  /\ tbl[id].value = p.value /\ tbl[id].timestamp = p.timestamp

\* C19: when record k is the first invalid record of a batch, bulk_create
\* answers 400; the k-1 records before it are persisted and stay, record k
\* and every record after it are not persisted.
C19_BulkStopsAtFirstInvalid ==
  [][(resp'.op = "bulk_create" /\ FirstInvalid(resp'.data) > 0) =>
       LET k == FirstInvalid(resp'.data)
           new == NewRows(db.measurement, db'.measurement)
       IN /\ resp'.status = 400
          /\ Cardinality(new) = k - 1
          /\ \E f \in [1..(k - 1) -> new] :
               /\ \A i, j \in 1..(k - 1) : i # j => f[i] # f[j]
               /\ \A i \in 1..(k - 1) : RowHolds(db'.measurement, f[i], resp'.data[i])
          /\ \A id \in DOMAIN db.measurement :
               id \in DOMAIN db'.measurement /\ db'.measurement[id] = db.measurement[id]]_vars

\* a batch of a valid, an invalid and a valid record was answered 400 and the
\* first record is the newest row of the table
C19_Witness ==
  /\ resp.op = "bulk_create" /\ resp.status = 400
  /\ Len(resp.data) = 3
  /\ MeasurementValid(resp.data[1]) /\ ~MeasurementValid(resp.data[2])
  /\ MeasurementValid(resp.data[3])
  /\ seq["measurement"] \in DOMAIN db.measurement
  /\ RowHolds(db.measurement, seq["measurement"], resp.data[1])
  /\ Cardinality(DOMAIN db.measurement) >= 2

\* C20: when every record of a batch of N records is valid, exactly N new
\* measurements are persisted, one per record, and the 201 response is the
\* sequence of those N records in input order; an empty batch persists
\* nothing.
C20_BulkAllValidPersistsAll ==
  [][(resp'.op = "bulk_create" /\ FirstInvalid(resp'.data) = 0) =>
       LET n == Len(resp'.data)
           new == NewRows(db.measurement, db'.measurement)
       IN /\ resp'.status = 201
          /\ Len(resp'.body) = n
          /\ Cardinality(new) = n
          /\ new = {resp'.body[i] : i \in 1..n}
          /\ \A i \in 1..n : RowHolds(db'.measurement, resp'.body[i], resp'.data[i])
          /\ \A id \in DOMAIN db.measurement :
               id \in DOMAIN db'.measurement /\ db'.measurement[id] = db.measurement[id]]_vars

\* a batch of three valid records, not all alike, was answered 201 with
\* three rows
C20_Witness ==
  /\ resp.op = "bulk_create" /\ resp.status = 201
  /\ Len(resp.data) = 3 /\ Len(resp.body) = 3
  /\ resp.data[1] # resp.data[3]
  /\ \A i \in 1..3 : resp.body[i] \in DOMAIN db.measurement

(***************************************************************************)
(* Requests without a credential.  Every view set of goals and nutrition   *)
(* declares permission_classes = [IsAuthenticated]; the permission is      *)
(* checked before the handler is called.                                   *)
(***************************************************************************)
Anonymous == "anonymous"

Requesters == {"bob", Anonymous}

\* mutant: the view sets allow any requester
IsAuthenticated_AllowAny(u) == TRUE

\* IsAuthenticated.has_permission: request.user is an authenticated user
IsAuthenticated(u) == u # Anonymous

\* the status of a request refused for want of a credential: 401 when the
\* first authentication class names a challenge header, 403 otherwise
DeniedStatuses == {401, 403}

\* the refusal: no handler runs, nothing is read or written
PermissionDenied(u, op, e, pk) ==
  \E s \in DeniedStatuses : Answer(Response(u, op, e, pk, s, {}, u))

\* APIView.initial then the handler
Dispatch(u, op, e, pk, Handler) ==
  IF IsAuthenticated(u) THEN Handler ELSE PermissionDenied(u, op, e, pk)

NextAnon ==
  \E u \in Requesters :
    \/ \E e \in Entities : \E p \in OwnerPayloads(e) :
          CanCreate(e) /\ Dispatch(u, "create", e, 0, Create(u, e, p))
    \/ \E e \in Entities : \E pk \in Ids(e) :
          Dispatch(u, "retrieve", e, pk, Retrieve(u, e, pk))
    \/ \E e \in Entities : \E pk \in Ids(e), p \in OwnerPayloads(e) :
          Dispatch(u, "update", e, pk, Update(u, e, pk, p))
    \/ \E e \in Entities : \E pk \in Ids(e) :
          Dispatch(u, "destroy", e, pk, Destroy(u, e, pk))
    \/ \E e \in Entities : Dispatch(u, "list", e, 0, List(u, e))
    \/ \E e \in {"goal", "diet"} : \E pk \in Ids(e) :
          Dispatch(u, "activate", e, pk, Activate(u, e, pk))
    \/ \E pk \in Ids("goal") : Dispatch(u, "deactivate", "goal", pk, Deactivate(u, pk))
    \/ Dispatch(u, "active", "goal", 0, GoalActive(u))
    \/ Dispatch(u, "by_type", "goal", 0, GoalByType(u, "weight_loss"))
    \/ Dispatch(u, "upcoming", "goal", 0, GoalUpcoming(u))
    \/ Dispatch(u, "overdue", "goal", 0, GoalOverdue(u))
    \/ \E pk \in Ids("goal") : Dispatch(u, "progress", "goal", pk, GoalProgress(u, pk))
    \/ Dispatch(u, "latest", "measurement", 0, MeasurementLatest(u, DefaultMetrics))
    \/ Dispatch(u, "by_metric", "measurement", 0, MeasurementByMetric(u, "weight_kg"))
    \/ Dispatch(u, "trends", "measurement", 0, MeasurementTrends(u, "weight_kg", 1))
    \/ Dispatch(u, "summary", "measurement", 0, MeasurementSummary(u))
    \/ \E p \in OwnerPayloads("measurement") :
          CanCreate("measurement")
          /\ Dispatch(u, "bulk_create", "measurement", 0, BulkCreate(u, <<p>>))
    \/ Dispatch(u, "active", "diet", 0, DietActive(u))
    \/ \E pk \in Ids("meal") : Dispatch(u, "ingredients", "meal", pk, MealIngredients(u, pk))
    \/ \E pk \in Ids("meal"), p \in OwnerPayloads("mealingredient") :
          CanCreate("mealingredient")
          /\ Dispatch(u, "add_ingredient", "meal", pk, MealAddIngredient(u, pk, p))
    \/ \E pk \in Ids("meal") :
          Dispatch(u, "nutrition_summary", "meal", pk, MealNutritionSummary(u, pk))
    \/ Dispatch(u, "today", "mealrecord", 0, RecordToday(u))
    \/ Dispatch(u, "nutrition_summary", "mealrecord", 0, RecordNutritionSummary(u, 1))
    \/ Dispatch(u, "by_type", "mealpreference", 0, PreferenceByType(u, "love"))

SpecAnon == Init /\ [][NextAnon]_vars

\* C21: a request without a valid credential to any goals, measurements or
\* nutrition endpoint is answered 401 or 403, carries no record data and
\* leaves the stored state unchanged, for reads and for writes alike.
C21_UnauthenticatedRejected ==
  [][resp'.user = Anonymous
     => /\ resp'.status \in {401, 403}
        /\ resp'.data = {} /\ resp'.body = <<>>
        /\ db' = db /\ seq' = seq]_vars

\* the delete of an existing row was asked for without a credential and
\* refused: the row is still there
C21_Witness ==
  /\ resp.user = Anonymous /\ resp.op = "destroy"
  /\ resp.status \in {401, 403}
  /\ resp.pk \in DOMAIN db[resp.entity]

(***************************************************************************)
(* Accounts and tokens.  The user model is django.contrib.auth's User:     *)
(* the username is unique, the email is not.  A run of the accounts API    *)
(* keeps three tables: user, token (one-to-one with user, deleted with     *)
(* it) and session.  A row of user holds the fields the requests below     *)
(* read: username, email and password; first_name and last_name are        *)
(* written unchecked and read by no request, and are left out.             *)
(***************************************************************************)
MaxAccounts == 2

AccountTables == {"user", "token", "session"}

Usernames == {"ann", "ben"}

Emails == {"a@x.org", "b@x.org"}

Passwords == {"secret01", "secret02", "short"}

\* a field the payload does not carry
NoValue == "none"

\* no account: the requester of an AllowAny endpoint, a failed authenticate
NoAccount == 0

InitAccounts ==
  /\ db = [e \in AccountTables |-> EmptyTable]
  /\ seq = [e \in AccountTables |-> 0]
  /\ today = 0
  /\ resp = NoResponse
  /\ procs = [p \in Procs |-> IdleProc]

\* the response of an accounts request, with the payload it answered
AccountResponse(u, op, pk, status, payload) ==
  [Response(u, op, "user", pk, status, {}, u) EXCEPT !.body = <<payload>>]

PasswordLength(pw) == IF pw = "short" THEN 5 ELSE 8

\* mutant: the cross-field check of the two passwords is left out
RegistrationValid_NoConfirm(d, p) ==
  /\ p.username \notin {d.user[a].username : a \in DOMAIN d.user}
  /\ PasswordLength(p.password) >= 8

\* UserRegistrationSerializer.is_valid: the username is unique (the model
\* field's validator), the password has min_length 8, and validate()
\* compares password and password_confirm; the email is not looked up
RegistrationValid(d, p) ==
  /\ p.username \notin {d.user[a].username : a \in DOMAIN d.user}
  /\ PasswordLength(p.password) >= 8
  /\ p.password = p.password_confirm

\* UserRegistrationSerializer.create: password_confirm is popped, the rest
\* goes to create_user
CreateUser(p) ==
  [username |-> p.username, email |-> p.email, password |-> p.password]

\* POST accounts/register/
Register(p) ==
  /\ IF RegistrationValid(db, p)
     THEN /\ db' = Save(db, "user", seq["user"] + 1, CreateUser(p))
          /\ seq' = [seq EXCEPT !["user"] = @ + 1]
          /\ resp' = AccountResponse(NoAccount, "register", seq["user"] + 1, 201, p)
     ELSE /\ resp' = AccountResponse(NoAccount, "register", 0, 400, p)
          /\ UNCHANGED <<db, seq>>
  /\ UNCHANGED <<today, procs>>

\* login(request, user): a session bound to the user
Login(d, sid, u) == Save(d, "session", sid, [user |-> u])

\* POST web register
WebRegister(p) ==
  /\ IF RegistrationValid(db, p)
     THEN /\ db' = Login(Save(db, "user", seq["user"] + 1, CreateUser(p)),
                         seq["session"] + 1, seq["user"] + 1)
          /\ seq' = [seq EXCEPT !["user"] = @ + 1, !["session"] = @ + 1]
          /\ resp' = AccountResponse(NoAccount, "web_register", seq["user"] + 1, 201, p)
     ELSE /\ resp' = AccountResponse(NoAccount, "web_register", 0, 400, p)
          /\ UNCHANGED <<db, seq>>
  /\ UNCHANGED <<today, procs>>

\* UserUpdateSerializer.validate_email
ValidateEmail(d, u, value) ==
  ~\E a \in DOMAIN d.user \ {u} : d.user[a].email = value

\* PATCH accounts/profile/ (partial: a field not sent is not validated and
\* not written)
ProfilePatch(u, p) ==
  /\ IF p.email # NoValue /\ ~ValidateEmail(db, u, p.email)
     THEN /\ resp' = AccountResponse(u, "profile_patch", u, 400, p)
          /\ UNCHANGED db
     ELSE /\ db' = IF p.email = NoValue THEN db
                   ELSE Save(db, "user", u, [db.user[u] EXCEPT !.email = p.email])
          /\ resp' = AccountResponse(u, "profile_patch", u, 200, p)
  /\ UNCHANGED <<seq, today, procs>>

\* POST web profile update: setattr of the fields sent, then user.save();
\* no constraint of the user table is on the email, so save() does not raise
WebUpdateProfile(u, p) ==
  /\ db' = IF p.email = NoValue THEN db
           ELSE Save(db, "user", u, [db.user[u] EXCEPT !.email = p.email])
  /\ resp' = AccountResponse(u, "web_update_profile", u, 200, p)
  /\ UNCHANGED <<seq, today, procs>>

\* ChangePasswordSerializer.is_valid: validate_old_password, min_length 8
\* of new_password, then validate()
ChangePasswordValid(d, u, p) ==
  /\ d.user[u].password = p.old_password
  /\ PasswordLength(p.new_password) >= 8
  /\ p.new_password = p.new_password_confirm

\* POST accounts/change-password/
ChangePassword(u, p) ==
  /\ IF ChangePasswordValid(db, u, p)
     THEN /\ db' = Save(db, "user", u, [db.user[u] EXCEPT !.password = p.new_password])
          /\ resp' = AccountResponse(u, "change_password", u, 200, p)
     ELSE /\ resp' = AccountResponse(u, "change_password", u, 400, p)
          /\ UNCHANGED db
  /\ UNCHANGED <<seq, today, procs>>

\* POST accounts/delete/: user.delete(), and with it the user's token
DeleteAccount(u) ==
  /\ db' = [db EXCEPT
              !.user = Restrict(@, DOMAIN @ \ {u}),
              !.token = Restrict(@, {k \in DOMAIN @ : @[k].user # u})]
  /\ resp' = AccountResponse(u, "delete_account", u, 200, <<>>)
  /\ UNCHANGED <<seq, today, procs>>

\* AuthTokenSerializer: username and password are required, and
\* authenticate() finds the account they belong to, or none
Authenticate(d, p) ==
  IF p.username = NoValue \/ p.password = NoValue THEN NoAccount
  ELSE IF \E a \in DOMAIN d.user :
            d.user[a].username = p.username /\ d.user[a].password = p.password
  THEN CHOOSE a \in DOMAIN d.user :
            d.user[a].username = p.username /\ d.user[a].password = p.password
  ELSE NoAccount

TokensOf(d, u) == {k \in DOMAIN d.token : d.token[k].user = u}

\* mutant: Token.objects.create(user=user) on every request
GetOrCreate_Create(d, next, u) ==
  [db |-> Save(d, "token", next + 1, [user |-> u]), key |-> next + 1, created |-> TRUE]

\* Token.objects.get_or_create(user=user); a new token gets a fresh key
GetOrCreate(d, next, u) ==
  IF TokensOf(d, u) # {}
  THEN [db |-> d, key |-> CHOOSE k \in TokensOf(d, u) : TRUE, created |-> FALSE]
  ELSE [db |-> Save(d, "token", next + 1, [user |-> u]), key |-> next + 1,
        created |-> TRUE]

\* POST auth/token/
ObtainAuthToken(p) ==
  LET user == Authenticate(db, p)
      got == GetOrCreate(db, seq["token"], user)
  IN /\ IF user = NoAccount
        THEN /\ resp' = AccountResponse(NoAccount, "token", 0, 400, p)
             /\ UNCHANGED <<db, seq>>
        ELSE /\ db' = got.db
             /\ seq' = [seq EXCEPT !["token"] = IF got.created THEN @ + 1 ELSE @]
             /\ resp' = [AccountResponse(user, "token", user, 200, p)
                           EXCEPT !.data = {got.key}]
     /\ UNCHANGED <<today, procs>>

RegisterPayloads ==
  [username : Usernames, email : Emails, password : {"secret01", "short"},
   password_confirm : {"secret01", "secret02"}]

ProfilePayloads == [email : Emails \cup {NoValue}]

ChangePasswordPayloads ==
  [old_password : {"secret01", "secret02"}, new_password : {"secret02", "short"},
   new_password_confirm : {"secret01", "secret02"}]

Credentials ==
  [username : Usernames, password : {"secret01", "secret02", NoValue}]

Accounts == DOMAIN db.user

NextAccounts ==
  \/ \E p \in RegisterPayloads : seq["user"] < MaxAccounts /\ Register(p)
  \/ \E p \in RegisterPayloads : seq["user"] < MaxAccounts /\ WebRegister(p)
  \/ \E u \in Accounts, p \in ProfilePayloads : ProfilePatch(u, p)
  \/ \E u \in Accounts, p \in ProfilePayloads : WebUpdateProfile(u, p)
  \/ \E u \in Accounts, p \in ChangePasswordPayloads : ChangePassword(u, p)
  \/ \E u \in Accounts : DeleteAccount(u)
  \/ \E p \in Credentials : ObtainAuthToken(p)

SpecAccounts == InitAccounts /\ [][NextAccounts]_vars

\* C22: each user has at most one token; a successful token request of a
\* user without a token creates one, a successful request of a user with a
\* token returns that token's key and creates none, and a request with
\* wrong, missing or unknown credentials answers 400 and creates no token.
C22_AtMostOneTokenPerUser ==
  [][/\ \A u \in DOMAIN db'.user : Cardinality(TokensOf(db', u)) <= 1
     /\ resp'.op = "token" =>
          IF ~\E a \in DOMAIN db.user :
                 /\ db.user[a].username = resp'.body[1].username
                 /\ db.user[a].password = resp'.body[1].password
          THEN resp'.status = 400 /\ db' = db
          ELSE /\ resp'.status = 200
               /\ db.user[resp'.pk].username = resp'.body[1].username
               /\ IF TokensOf(db, resp'.pk) # {}
                  THEN resp'.data = TokensOf(db, resp'.pk) /\ db' = db
                  ELSE /\ resp'.data = TokensOf(db', resp'.pk)
                       /\ DOMAIN db'.token = DOMAIN db.token \cup resp'.data
                       /\ resp'.data \cap DOMAIN db.token = {}]_vars

\* the key created first was returned again after another user's token was
\* created: a later request of the first user, answered with the same key
C22_Witness ==
  /\ resp.op = "token" /\ resp.status = 200
  /\ resp.data = {1} /\ seq["token"] = 2
  /\ Cardinality(DOMAIN db.token) = 2

\* C23: a registration (register, web_register) whose password and
\* confirmation differ answers 400 and creates no account and no session;
\* a change_password whose new password and confirmation differ is
\* rejected and leaves the password as it was.
C23_MismatchRejected ==
  [][/\ (resp'.op \in {"register", "web_register"}
         /\ resp'.body[1].password # resp'.body[1].password_confirm)
        => (resp'.status = 400 /\ db' = db /\ seq' = seq)
     /\ (resp'.op = "change_password"
         /\ resp'.body[1].new_password # resp'.body[1].new_password_confirm)
        => (resp'.status = 400 /\ db' = db)]_vars

\* a web registration was refused for the confirmation alone (free
\* username, long enough password) and no session exists
C23_Witness ==
  /\ resp.op = "web_register" /\ resp.status = 400
  /\ resp.body[1].password # resp.body[1].password_confirm
  /\ PasswordLength(resp.body[1].password) >= 8
  /\ resp.body[1].username \notin {db.user[a].username : a \in DOMAIN db.user}
  /\ db.session = EmptyTable

\* C24: no two accounts hold the same email.
C24_NoSharedEmail ==
  \A a, b \in DOMAIN db.user : a # b => db.user[a].email # db.user[b].email

(***************************************************************************)
(* The aggregation reads next to the writes they read from.                *)
(***************************************************************************)
AggregationReads ==
  {<<"goal", "active">>, <<"goal", "by_type">>, <<"goal", "upcoming">>,
   <<"goal", "overdue">>, <<"goal", "progress">>,
   <<"measurement", "latest">>, <<"measurement", "by_metric">>,
   <<"measurement", "trends">>, <<"measurement", "summary">>,
   <<"diet", "active">>, <<"meal", "ingredients">>,
   <<"meal", "nutrition_summary">>, <<"mealrecord", "today">>,
   <<"mealrecord", "nutrition_summary">>}

NextAggr ==
  \/ \E e \in Entities : \E p \in OwnerPayloads(e) : CanCreate(e) /\ Create("bob", e, p)
  \/ \E e \in Entities : \E pk \in Ids(e), p \in OwnerPayloads(e) : Update("bob", e, pk, p)
  \/ \E e \in Entities : \E pk \in Ids(e) : Destroy("bob", e, pk)
  \/ \E e \in {"goal", "diet"} : \E pk \in Ids(e) : Activate("bob", e, pk)
  \/ \E u \in Users :
       \/ GoalActive(u)
       \/ GoalByType(u, "weight_loss")
       \/ GoalUpcoming(u)
       \/ GoalOverdue(u)
       \/ \E pk \in Ids("goal") : GoalProgress(u, pk)
       \/ MeasurementLatest(u, DefaultMetrics)
       \/ MeasurementByMetric(u, "weight_kg")
       \/ \E days \in {0, 1} : MeasurementTrends(u, "weight_kg", days)
       \/ MeasurementSummary(u)
       \/ DietActive(u)
       \/ \E pk \in Ids("meal") : MealIngredients(u, pk)
       \/ \E pk \in Ids("meal") : MealNutritionSummary(u, pk)
       \/ RecordToday(u)
       \/ \E days \in {0, 1} : RecordNutritionSummary(u, days)

SpecAggr == InitAnyDay /\ [][NextAggr]_vars

IsAggregationRead(r) == <<r.entity, r.op>> \in AggregationReads

\* the request a response answers: who asked what, with which parameters
RequestOf(r) ==
  <<r.user, r.entity, r.op, r.pk,
    IF r.op \in {"latest", "trends"}
       \/ (r.op = "nutrition_summary" /\ r.entity = "mealrecord")
    THEN r.data ELSE <<>>>>

\* the rows and numbers a read of request r is to return when it is
\* computed from the tables d on day t
Recomputed(d, t, r) ==
  LET u == r.user
      pk == r.pk
      key == <<r.entity, r.op>>
  IN CASE key = <<"goal", "active">> -> <<200, ActiveRows(d, "goal", u), <<>>>>
       [] key = <<"goal", "by_type">> -> <<200, GoalByTypeRows(d, u, "weight_loss"), <<>>>>
       [] key = <<"goal", "upcoming">> -> <<200, {}, GoalUpcomingRows(d, u, t)>>
       [] key = <<"goal", "overdue">> -> <<200, {}, GoalOverdueRows(d, u, t)>>
       [] key = <<"goal", "progress">> ->
            IF ObjectFound(d, "goal", u, pk)
            THEN <<200, {}, ProgressBody(d, u, pk)>> ELSE <<404, {}, <<>>>>
       [] key = <<"measurement", "latest">> -> <<200, r.data, LatestRows(d, u, r.data)>>
       [] key = <<"measurement", "by_metric">> ->
            <<200, {}, MetricRowsDesc(d, u, "weight_kg")>>
       [] key = <<"measurement", "trends">> ->
            IF WindowStatus(r.data[2], t) = 200
            THEN <<200, r.data, TrendsBody(d, u, r.data[1], r.data[2], t)>>
            ELSE <<500, r.data, <<>>>>
       [] key = <<"measurement", "summary">> -> <<200, SummaryRows(d, u), <<>>>>
       [] key = <<"diet", "active">> ->
            <<DietActiveStatus(d, u),
              IF DietActiveStatus(d, u) = 200 THEN ActiveRows(d, "diet", u) ELSE {},
              <<>>>>
       [] key = <<"meal", "ingredients">> ->
            IF ObjectFound(d, "meal", u, pk)
            THEN <<200, {x \in DOMAIN d.mealingredient : d.mealingredient[x].meal = pk},
                   <<>>>>
            ELSE <<404, {}, <<>>>>
       [] key = <<"meal", "nutrition_summary">> ->
            IF ObjectFound(d, "meal", u, pk)
            THEN <<200, {}, MealSummaryBody(d, pk)>> ELSE <<404, {}, <<>>>>
       [] key = <<"mealrecord", "today">> -> <<200, RecordTodayRows(d, u, t), <<>>>>
       [] OTHER ->
            IF WindowStatus(r.data[1], t) = 200
            THEN <<200, r.data, RecordSummaryBody(d, u, r.data[1], t)>>
            ELSE <<500, r.data, <<>>>>

\* C25: every read of the aggregation layer leaves the persisted state as
\* it was; the same read issued twice in a row gives the same result; and
\* the result of a read is the one computed from the tables as they are
\* when it is issued, so it reflects every write before it.
C25_ReadsPureAndFresh ==
  [][IsAggregationRead(resp') =>
       /\ db' = db /\ seq' = seq /\ today' = today
       /\ (IsAggregationRead(resp) /\ RequestOf(resp) = RequestOf(resp')) => resp' = resp
       /\ <<resp'.status, resp'.data, resp'.body>> = Recomputed(db', today', resp')]_vars

\* the meal summary of a meal with an ingredient: the read followed the
\* write of the ingredient and shows its totals
C25_Witness ==
  /\ resp.op = "nutrition_summary" /\ resp.entity = "meal" /\ resp.status = 200
  /\ \E x \in DOMAIN db.mealingredient : db.mealingredient[x].meal = resp.pk
  /\ resp.body = MealSummaryBody(db, resp.pk)

(***************************************************************************)
(* IngredientViewSet.  A row of the ingredient table carries its name and  *)
(* description (sequences of characters), the visibility flag and its      *)
(* creator; the catalogue rows are public and have no creator.             *)
(***************************************************************************)
MaxIngredients == 2

SearchLimit == 10

IngredientNames == {<<"H", "a", "m">>, <<"J", "a", "m">>}

IngredientDescriptions == {<<>>, <<"h", "o", "t">>}

Queries == {<<"h">>, <<"h", "a">>, <<"A", "M">>, <<"o", "t">>}

\* the characters of the names, descriptions and queries, in lower case
Lower(c) ==
  CASE c = "H" -> "h" [] c = "J" -> "j" [] c = "A" -> "a" [] c = "M" -> "m"
    [] OTHER -> c

LowerSeq(sq) == [k \in 1..Len(sq) |-> Lower(sq[k])]

\* field__icontains=query
IContains(field, query) ==
  \E k \in 0..(Len(field) - Len(query)) :
     SubSeq(LowerSeq(field), k + 1, k + Len(query)) = LowerSeq(query)

\* a row as IngredientFactory makes it: public, without creator
CatalogueRow ==
  [name |-> <<"H", "a", "m">>, description |-> <<>>, is_personal |-> FALSE,
   created_by |-> NoUser]

InitIngredients ==
  /\ \/ db = [ingredient |-> EmptyTable] /\ seq = [ingredient |-> 0]
     \/ db = [ingredient |-> (1 :> CatalogueRow)] /\ seq = [ingredient |-> 1]
  /\ today = 0
  /\ resp = NoResponse
  /\ procs = [p \in Procs |-> IdleProc]

\* get_queryset: Q(is_personal=False) | Q(created_by=self.request.user)
IngredientQueryset(d, u) ==
  {x \in DOMAIN d.ingredient :
     ~d.ingredient[x].is_personal \/ d.ingredient[x].created_by = u}

\* perform_create: serializer.save(created_by=self.request.user, is_personal=True)
IngredientPerformCreate(u, p) ==
  [name |-> p.name, description |-> p.description, is_personal |-> TRUE,
   created_by |-> u]

\* POST ingredients/
IngredientCreate(u, p) ==
  /\ db' = Save(db, "ingredient", seq["ingredient"] + 1, IngredientPerformCreate(u, p))
  /\ seq' = [seq EXCEPT !["ingredient"] = @ + 1]
  /\ resp' = Response(u, "create", "ingredient", seq["ingredient"] + 1, 201,
                      {seq["ingredient"] + 1}, u)
  /\ UNCHANGED <<today, procs>>

\* GET ingredients/
IngredientList(u) ==
  Answer(Response(u, "list", "ingredient", 0, 200, IngredientQueryset(db, u), u))

\* GET ingredients/<pk>/
IngredientRetrieve(u, pk) ==
  Answer(IF pk \in IngredientQueryset(db, u)
         THEN Response(u, "retrieve", "ingredient", pk, 200, {pk}, u)
         ELSE Response(u, "retrieve", "ingredient", pk, 404, {}, u))

\* DELETE ingredients/<pk>/
IngredientDestroy(u, pk) ==
  /\ IF pk \in IngredientQueryset(db, u)
     THEN /\ db' = [db EXCEPT !.ingredient = Restrict(@, DOMAIN @ \ {pk})]
          /\ resp' = Response(u, "destroy", "ingredient", pk, 204, {}, u)
     ELSE /\ resp' = Response(u, "destroy", "ingredient", pk, 404, {}, u)
          /\ UNCHANGED db
  /\ UNCHANGED <<seq, today, procs>>

\* Ingredient.objects.filter(Q(name__icontains=query) |
\* Q(description__icontains=query)): every row of the table that matches
SearchMatches(d, query) ==
  {x \in DOMAIN d.ingredient :
     \/ IContains(d.ingredient[x].name, query)
     \/ IContains(d.ingredient[x].description, query)}

\* [:10]: at most SearchLimit of the rows
FirstRows(S) ==
  IF Cardinality(S) <= SearchLimit THEN S
  ELSE {x \in S : Cardinality({y \in S : y < x}) < SearchLimit}

\* GET ingredients/search/?q=
IngredientSearch(u, query) ==
  Answer(IF Len(query) < 2
         THEN [Response(u, "search", "ingredient", 0, 400, {}, u)
                 EXCEPT !.body = <<query>>]
         ELSE [Response(u, "search", "ingredient", 0, 200,
                        FirstRows(SearchMatches(db, query)), u)
                 EXCEPT !.body = <<query>>])

\* Ingredient.objects.filter(created_by=request.user, is_personal=True)
PersonalRows(d, u) ==
  {x \in DOMAIN d.ingredient :
     d.ingredient[x].created_by = u /\ d.ingredient[x].is_personal}

\* GET ingredients/personal/
IngredientPersonal(u) ==
  Answer(Response(u, "personal", "ingredient", 0, 200, PersonalRows(db, u), u))

IngredientPayloads == [name : IngredientNames, description : IngredientDescriptions]

NextIngredients ==
  \E u \in Users :
    \/ \E p \in IngredientPayloads :
          seq["ingredient"] < MaxIngredients /\ IngredientCreate(u, p)
    \/ IngredientList(u)
    \/ \E pk \in Ids("ingredient") : IngredientRetrieve(u, pk)
    \/ \E pk \in Ids("ingredient") : IngredientDestroy(u, pk)
    \/ \E q \in Queries : IngredientSearch(u, q)
    \/ IngredientPersonal(u)

SpecIngredients == InitIngredients /\ [][NextIngredients]_vars

\* C26: the ingredient list, detail, search and personal results returned
\* to a user never contain a personal ingredient created by another user,
\* and an ingredient created through the API is stored as personal to the
\* requester.
C26_PersonalOnlyForCreator ==
  resp.entity = "ingredient" =>
    /\ resp.op \in {"list", "retrieve", "search", "personal"} =>
         \A x \in resp.data :
            db.ingredient[x].is_personal => db.ingredient[x].created_by = resp.user
    /\ (resp.op = "create" /\ resp.status = 201) =>
         /\ db.ingredient[resp.pk].is_personal
         /\ db.ingredient[resp.pk].created_by = resp.user

(***************************************************************************)
(* deactivate and the flags of the other goals.                            *)
(***************************************************************************)
\* C27: deactivate(G) clears the active flag of G only: afterwards G is
\* inactive, and the active flag of every other goal, of the same owner or
\* of another, is what it was before; no goal appears or disappears.
C27_DeactivateClearsOnlyTarget ==
  [][(resp'.op = "deactivate" /\ resp'.status = 200)
     => /\ DOMAIN db'.goal = DOMAIN db.goal
        /\ ~db'.goal[resp'.pk].is_active
        /\ \A g \in DOMAIN db.goal \ {resp'.pk} :
              db'.goal[g].is_active = db.goal[g].is_active]_vars

\* G was deactivated while another goal of its owner and a goal of the
\* other user were active, and both still are
C27_Witness ==
  /\ resp.op = "deactivate" /\ resp.status = 200
  /\ ~db.goal[resp.pk].is_active
  /\ \E g \in DOMAIN db.goal \ {resp.pk} :
        db.goal[g].user = resp.user /\ db.goal[g].is_active
  /\ \E g \in DOMAIN db.goal : db.goal[g].user # resp.user /\ db.goal[g].is_active

(***************************************************************************)
(* The owner of the rows of a batch.                                       *)
(***************************************************************************)
\* C28: every measurement persisted by a successful bulk_create is owned
\* by the requesting user, as a row of the single create endpoint is, and
\* is a row of that user's measurement list.
C28_BulkRowsOwnedByRequester ==
  (resp.op = "bulk_create" /\ resp.status = 201)
    => \A k \in 1..Len(resp.body) :
          /\ db.measurement[resp.body[k]].user = resp.user
          /\ resp.body[k] \in GetQueryset(db, "measurement", resp.user)

(***************************************************************************)
(* The answers of the diet `active` read.                                  *)
(***************************************************************************)
\* C29: in every state reachable through the diet API the `active` read
\* answers with one active diet (200) or with the NotFound result (404),
\* never with another error.
C29_ActiveDietNeverFails ==
  (resp.op = "active" /\ resp.entity = "diet") => resp.status \in {200, 404}

(***************************************************************************)
(* activate and deactivate, statement by statement, next to the edits and  *)
(* deletes of the same owner.  Both load the goal, change its flag in      *)
(* memory and write the loaded copy back with save(), which updates every  *)
(* column of the row and inserts the row when the update finds none.       *)
(***************************************************************************)
\* goal = self.get_object() of deactivate
DeactivateLoad(p, u, pk) ==
  /\ procs[p].pc = "idle"
  /\ IF ObjectFound(db, "goal", u, pk)
     THEN /\ procs' = [procs EXCEPT ![p] =
                 [pc |-> "dloaded", user |-> u, pk |-> pk, obj |-> db.goal[pk]]]
          /\ UNCHANGED resp
     ELSE /\ resp' = Response(u, "deactivate", "goal", pk, 404, {}, u)
          /\ UNCHANGED procs
  /\ UNCHANGED <<db, seq, today>>

\* goal.is_active = False; goal.save(); return Response(...)
DeactivateSave(p) ==
  /\ procs[p].pc = "dloaded"
  /\ db' = Save(db, "goal", procs[p].pk, [procs[p].obj EXCEPT !.is_active = FALSE])
  /\ procs' = [procs EXCEPT ![p].pc = "done"]
  /\ resp' = Response(procs[p].user, "deactivate", "goal", procs[p].pk, 200, {},
                      procs[p].user)
  /\ UNCHANGED <<seq, today>>

NextEdit ==
  \/ \E p \in GoalPayloads : seq["goal"] < MaxPerEntity /\ Create("bob", "goal", p)
  \/ \E pk \in Ids("goal"), p \in GoalPayloads : Update("bob", "goal", pk, p)
  \/ \E pk \in Ids("goal") : Destroy("bob", "goal", pk)
  \/ \E p \in Procs, pk \in Ids("goal") : ActivateLoad(p, "bob", pk)
  \/ \E p \in Procs : ActivateClear(p)
  \/ \E p \in Procs : ActivateSave(p)
  \/ \E p \in Procs, pk \in Ids("goal") : DeactivateLoad(p, "bob", pk)
  \/ \E p \in Procs : DeactivateSave(p)

SpecEdit == Init /\ [][NextEdit]_vars

\* the columns of a goal other than the active flag
OtherFields(row) == [row EXCEPT !.is_active = FALSE]

\* C30: a statement of activate or deactivate changes active flags only,
\* whatever edit or delete of the same owner was committed since the goal
\* was loaded: the other fields of every goal stay as stored and no goal
\* is created by it.
C30_FlagRequestsWriteFlagsOnly ==
  [][procs' # procs =>
       /\ DOMAIN db'.goal = DOMAIN db.goal
       /\ \A g \in DOMAIN db.goal :
             OtherFields(db'.goal[g]) = OtherFields(db.goal[g])]_vars

====
